---- MODULE Spec2Model ----
(***************************************************************************)
(* Keynest: the vault cipher (packages/crypto vault-crypto.ts), pairwise   *)
(* sharing (sharing.ts), key derivation (kdf.ts) and the desktop app's     *)
(* unlocked scope (store.ts, local-vault.ts, the views).                    *)
(*                                                                         *)
(* A JavaScript string is a sequence of UTF-16 code units (0..65535), a    *)
(* Uint8Array a sequence of bytes (0..255).  A CryptoKey is an opaque      *)
(* handle, named by a natural number.                                      *)
(***************************************************************************)
EXTENDS Integers, Sequences, FiniteSets, TLC

-----------------------------------------------------------------------------
(* State.  Each specification below drives one part of the program and     *)
(* leaves the variables of the other parts as they start.                  *)

\* the cipher applied to drawn inputs
VARIABLES encs, op

\* pairwise sharing applied to drawn inputs; server is what the accounts
\* have registered with the server
VARIABLES pairs, shared, sop, server

\* the desktop app: localStorage, the store, what each async handler in
\* flight holds, the views' own state, and the ids randomUUID has given out
VARIABLES localStorage, store, unlockView, registerView, addItemView,
          prefill, unlockError, confirmDelete, confirmClear, uuids,
          breachView

cipherVars == << encs, op >>

shareVars == << pairs, shared, sop, server >>

\* the other functions of the crypto package applied to drawn inputs
VARIABLES kdfOp, breachOp, genOp

utilVars == << kdfOp, breachOp, genOp >>

libVars == << cipherVars, shareVars, utilVars >>

appVars ==
  << localStorage, store, unlockView, registerView, addItemView, prefill,
     unlockError, confirmDelete, confirmClear, uuids, breachView >>

\* the Argon2 runtime loader: the module-level argon2Instance, how often
\* loadArgon2 has run, and where each deriveMasterKey call stands
VARIABLES argon2Instance, loads, derivations

argonVars == << argon2Instance, loads, derivations >>

\* the server's auth routes: the users and sessions tables, the refresh
\* tokens generated so far, and the POST /auth/refresh requests in flight
VARIABLES users, sessions, issued, refreshes

authVars == << users, sessions, issued, refreshes >>

\* the server's vault routes: the vault_items and sync_revisions tables, the
\* clock, the last response, and a client that keeps a copy by syncing
VARIABLES vaultItems, syncRevisions, now, reply, client

vaultVars == << vaultItems, syncRevisions, now, reply, client >>

sysVars == << argonVars, authVars, vaultVars >>

vars == << cipherVars, shareVars, utilVars, appVars, sysVars >>

-----------------------------------------------------------------------------
(* Program constants of vault-crypto.ts *)

VERSION == 1

IV_LENGTH == 12

TAG_LENGTH == 128

TagBytes == TAG_LENGTH \div 8

-----------------------------------------------------------------------------
(* Sequence helpers *)

RECURSIVE SumRange(_, _, _)
\* f[lo] + ... + f[hi], added up by halves
SumRange(f, lo, hi) ==
  IF lo > hi THEN 0
  ELSE IF lo = hi THEN f[lo]
  ELSE LET mid == (lo + hi) \div 2
       IN  SumRange(f, lo, mid) + SumRange(f, mid + 1, hi)

RECURSIVE FlatRange(_, _, _)
\* f[lo] \o ... \o f[hi], appended by halves
FlatRange(f, lo, hi) ==
  IF lo > hi THEN <<>>
  ELSE IF lo = hi THEN f[lo]
  ELSE LET mid == (lo + hi) \div 2
       IN  FlatRange(f, lo, mid) \o FlatRange(f, mid + 1, hi)

SumSeq(s) == SumRange(s, 1, Len(s))

\* sum of (2i+1) * s[i] over the positions i >= from of s
WeightedSum(s, from) ==
  SumRange([i \in 1..Len(s) |-> (2 * i + 1) * s[i]], from, Len(s))

\* s with every element that is in drop removed
Without(s, drop) ==
  LET Kept(x) == x \notin drop
  IN  SelectSeq(s, Kept)

Drop(s, n) == IF n >= Len(s) THEN <<>> ELSE SubSeq(s, n + 1, Len(s))

Take(s, n) == IF n >= Len(s) THEN s ELSE SubSeq(s, 1, n)

-----------------------------------------------------------------------------
(* btoa / atob and the URL-safe wrapping of vault-crypto.ts *)

B64Char(v) ==
  IF v < 26 THEN 65 + v
  ELSE IF v < 52 THEN 71 + v
  ELSE IF v < 62 THEN v - 4
  ELSE IF v = 62 THEN 43 ELSE 47

B64Value(c) ==
  IF c \in 65..90 THEN c - 65
  ELSE IF c \in 97..122 THEN c - 71
  ELSE IF c \in 48..57 THEN c + 4
  ELSE IF c = 43 THEN 62
  ELSE IF c = 47 THEN 63 ELSE -1

\* standard base64 with '=' (61) padding of a binary string: every three
\* bytes give four characters, the last one or two bytes a padded group
btoa(b) ==
  LET Groups == (Len(b) + 2) \div 3
      Group(g) ==
        LET i == 3 * g - 2
        IN  IF i = Len(b) THEN
              << B64Char(b[i] \div 4), B64Char((b[i] % 4) * 16), 61, 61 >>
            ELSE IF i + 1 = Len(b) THEN
              << B64Char(b[i] \div 4),
                 B64Char((b[i] % 4) * 16 + b[i + 1] \div 16),
                 B64Char((b[i + 1] % 16) * 4), 61 >>
            ELSE
              << B64Char(b[i] \div 4),
                 B64Char((b[i] % 4) * 16 + b[i + 1] \div 16),
                 B64Char((b[i + 1] % 16) * 4 + b[i + 2] \div 64),
                 B64Char(b[i + 2] % 64) >>
  IN  FlatRange([g \in 1..Groups |-> Group(g)], 1, Groups)

ReplaceChar(s, from, to) == [i \in 1..Len(s) |-> IF s[i] = from THEN to ELSE s[i]]

\* btoa alone: the standard alphabet, padded
toBase64(bytes) ==
  btoa(bytes)

toBase64Url(bytes) ==
  Without(ReplaceChar(ReplaceChar(btoa(bytes), 43, 45), 47, 95), {61})

AsciiWhitespace == {9, 10, 12, 13, 32}

\* the bytes of a string of alphabet characters whose length is not 1 mod 4:
\* every four characters give three bytes, the last two or three characters
\* one or two
B64DecodeGroups(s) ==
  LET Groups == (Len(s) + 3) \div 4
      Group(g) ==
        LET i == 4 * g - 3
        IN  IF i + 1 = Len(s) THEN
              << B64Value(s[i]) * 4 + B64Value(s[i + 1]) \div 16 >>
            ELSE IF i + 2 = Len(s) THEN
              << B64Value(s[i]) * 4 + B64Value(s[i + 1]) \div 16,
                 (B64Value(s[i + 1]) % 16) * 16 + B64Value(s[i + 2]) \div 4 >>
            ELSE
              << B64Value(s[i]) * 4 + B64Value(s[i + 1]) \div 16,
                 (B64Value(s[i + 1]) % 16) * 16 + B64Value(s[i + 2]) \div 4,
                 (B64Value(s[i + 2]) % 4) * 64 + B64Value(s[i + 3]) >>
  IN  FlatRange([g \in 1..Groups |-> Group(g)], 1, Groups)

StripPadding(s) ==
  IF Len(s) % 4 = 0 /\ Len(s) >= 2 /\ s[Len(s)] = 61
  THEN IF s[Len(s) - 1] = 61 THEN Take(s, Len(s) - 2) ELSE Take(s, Len(s) - 1)
  ELSE s

\* forgiving-base64 decode: [ok |-> FALSE] is the InvalidCharacterError
atob(str) ==
  LET data == StripPadding(Without(str, AsciiWhitespace))
  IN  IF Len(data) % 4 = 1 \/ \E i \in 1..Len(data) : B64Value(data[i]) < 0
      THEN [ok |-> FALSE, bytes |-> <<>>]
      ELSE [ok |-> TRUE, bytes |-> B64DecodeGroups(data)]

PadEnd(s, n) == s \o [i \in 1..(n - Len(s)) |-> 61]

fromBase64Url(str) ==
  LET base64 == ReplaceChar(ReplaceChar(str, 45, 43), 95, 47)
      padded == PadEnd(base64, Len(base64) + ((4 - (Len(base64) % 4)) % 4))
  IN  atob(padded)

-----------------------------------------------------------------------------
(* TextEncoder.encode and TextDecoder.decode (UTF-8, non-fatal, BOM not    *)
(* ignored), as vault-crypto.ts uses them                                  *)

IsHighSurrogate(u) == u \in 55296..56319

IsLowSurrogate(u) == u \in 56320..57343

\* a DOMString to scalar values: a high surrogate and the low one after it
\* are one scalar value, an unpaired surrogate becomes U+FFFD (65533)
ToScalarValues(s) ==
  LET Unit(i) ==
        IF IsHighSurrogate(s[i]) /\ i < Len(s) /\ IsLowSurrogate(s[i + 1]) THEN
          << 65536 + (s[i] - 55296) * 1024 + (s[i + 1] - 56320) >>
        ELSE IF IsLowSurrogate(s[i]) /\ i > 1 /\ IsHighSurrogate(s[i - 1]) THEN
          <<>>
        ELSE IF IsHighSurrogate(s[i]) \/ IsLowSurrogate(s[i]) THEN << 65533 >>
        ELSE << s[i] >>
  IN  FlatRange([i \in 1..Len(s) |-> Unit(i)], 1, Len(s))

Utf8Bytes(cp) ==
  IF cp < 128 THEN << cp >>
  ELSE IF cp < 2048 THEN << 192 + cp \div 64, 128 + (cp % 64) >>
  ELSE IF cp < 65536 THEN
    << 224 + cp \div 4096, 128 + ((cp \div 64) % 64), 128 + (cp % 64) >>
  ELSE
    << 240 + cp \div 262144, 128 + ((cp \div 4096) % 64),
       128 + ((cp \div 64) % 64), 128 + (cp % 64) >>

Utf8EncodeAll(cps) ==
  FlatRange([i \in 1..Len(cps) |-> Utf8Bytes(cps[i])], 1, Len(cps))

TextEncode(s) == Utf8EncodeAll(ToScalarValues(s))

IsCont(b) == b \in 128..191

\* the range the second byte of a sequence led by `lead` must lie in
SecondRange(lead) ==
  IF lead = 224 THEN 160..191
  ELSE IF lead = 237 THEN 128..159
  ELSE IF lead = 240 THEN 144..191
  ELSE IF lead = 244 THEN 128..143
  ELSE 128..191

Needed(lead) ==
  IF lead \in 194..223 THEN 1
  ELSE IF lead \in 224..239 THEN 2
  ELSE IF lead \in 240..244 THEN 3
  ELSE 0

\* the number of bytes the decoder takes when it starts a character at i
Utf8Taken(b, i) ==
  IF b[i] < 128 \/ Needed(b[i]) = 0 THEN 1
  ELSE IF Len(b) < i + 1 \/ b[i + 1] \notin SecondRange(b[i]) THEN 1
  ELSE IF Needed(b[i]) = 1 THEN 2
  ELSE IF Len(b) < i + 2 \/ ~IsCont(b[i + 2]) THEN 2
  ELSE IF Needed(b[i]) = 2 THEN 3
  ELSE IF Len(b) < i + 3 \/ ~IsCont(b[i + 3]) THEN 3
  ELSE 4

\* the scalar value the decoder gives for the character it starts at i
Utf8Scalar(b, i) ==
  LET n == Utf8Taken(b, i)
  IN  IF b[i] < 128 THEN b[i]
      ELSE IF n = Needed(b[i]) + 1 /\ n = 2 THEN
        (b[i] - 192) * 64 + (b[i + 1] - 128)
      ELSE IF n = Needed(b[i]) + 1 /\ n = 3 THEN
        (b[i] - 224) * 4096 + (b[i + 1] - 128) * 64 + (b[i + 2] - 128)
      ELSE IF n = Needed(b[i]) + 1 /\ n = 4 THEN
        (b[i] - 240) * 262144 + (b[i + 1] - 128) * 4096
          + (b[i + 2] - 128) * 64 + (b[i + 3] - 128)
      ELSE 65533

\* bytes to scalar values; every maximal ill-formed part becomes U+FFFD.  A
\* byte outside 128..191 always starts a character; a byte inside starts one
\* unless the character of the nearest such byte before it takes it
Utf8DecodeAll(b) ==
  LET Leads(i) == { j \in 1..(i - 1) : ~IsCont(b[j]) }
      Inside(i) ==
        /\ IsCont(b[i])
        /\ Leads(i) # {}
        /\ LET j == CHOOSE k \in Leads(i) : \A l \in Leads(i) : l <= k
           IN  j + Utf8Taken(b, j) > i
      Unit(i) == IF Inside(i) THEN <<>> ELSE << Utf8Scalar(b, i) >>
  IN  FlatRange([i \in 1..Len(b) |-> Unit(i)], 1, Len(b))

ToCodeUnits(cps) ==
  LET Unit(i) ==
        IF cps[i] >= 65536 THEN
          << 55296 + (cps[i] - 65536) \div 1024,
             56320 + ((cps[i] - 65536) % 1024) >>
        ELSE << cps[i] >>
  IN  FlatRange([i \in 1..Len(cps) |-> Unit(i)], 1, Len(cps))

HasBOM(b) == Len(b) >= 3 /\ b[1] = 239 /\ b[2] = 187 /\ b[3] = 191

\* new TextDecoder().decode(b): a leading byte order mark is dropped
TextDecode(b) ==
  ToCodeUnits(Utf8DecodeAll(IF HasBOM(b) THEN Drop(b, 3) ELSE b))

-----------------------------------------------------------------------------
(* AES-256-GCM as crypto.subtle provides it: a length-preserving stream    *)
(* cipher keyed by (key, iv) followed by a TagBytes-byte tag over (key,    *)
(* iv, ciphertext); decryption releases the plaintext only when the tag    *)
(* verifies.  The tag changes with the key and with every single-bit       *)
(* change of the iv or the ciphertext.                                     *)

NoPlaintext == << -1 >>

Keystream(key, iv, i) == (key * 31 + SumSeq(iv) * 7 + i * 13) % 256

GcmTag(key, iv, ct) ==
  LET h == key * 97 + WeightedSum(iv \o ct, 1) + Len(ct) * 5
  IN  [j \in 1..TagBytes |-> (h + 11 * j) % 256]

AesGcmEncrypt(key, iv, pt) ==
  LET ct == [i \in 1..Len(pt) |-> (pt[i] + Keystream(key, iv, i)) % 256]
  IN  ct \o GcmTag(key, iv, ct)

\* the same cipher without the tag check (a counter mode named by mistake)
AesCtrDecrypt(key, iv, data) ==
  LET ct == Take(data, Len(data) - TagBytes)
  IN  IF Len(data) < TagBytes THEN [ok |-> FALSE, bytes |-> <<>>]
      ELSE [ok |-> TRUE,
            bytes |-> [i \in 1..Len(ct) |->
                         (ct[i] + 256 - Keystream(key, iv, i)) % 256]]

AesGcmDecrypt(key, iv, data) ==
  IF Len(data) < TagBytes THEN [ok |-> FALSE, bytes |-> <<>>]
  ELSE
    LET ct  == Take(data, Len(data) - TagBytes)
        tag == Drop(data, Len(data) - TagBytes)
    IN  IF tag # GcmTag(key, iv, ct) THEN [ok |-> FALSE, bytes |-> <<>>]
        ELSE [ok |-> TRUE,
              bytes |-> [i \in 1..Len(ct) |->
                           (ct[i] + 256 - Keystream(key, iv, i)) % 256]]

-----------------------------------------------------------------------------
(* encryptItem / decryptItem of vault-crypto.ts *)

\* view.setUint16(0, v, true): the little-endian slip
Uint16LE(v) == << v % 256, (v \div 256) % 256 >>

\* view.setUint16(0, v, false)
Uint16BE(v) == << (v \div 256) % 256, v % 256 >>

\* packed without packed.set(iv, 2): the iv bytes stay zero
PackNoIv(iv, ciphertext) ==
  Uint16BE(VERSION) \o [i \in 1..IV_LENGTH |-> 0] \o ciphertext

Pack(iv, ciphertext) == Uint16BE(VERSION) \o iv \o ciphertext

\* iv is the value crypto.getRandomValues returned to this call
encryptItem(plaintext, encryptionKey, iv) ==
  LET ciphertext == AesGcmEncrypt(encryptionKey, iv, TextEncode(plaintext))
  IN  [ciphertext |-> toBase64Url(Pack(iv, ciphertext)), version |-> VERSION]

Failure(error, aead) ==
  [ok |-> FALSE, error |-> error, plaintext |-> NoPlaintext, aead |-> aead]

Success(bytes) ==
  [ok |-> TRUE, error |-> "none", plaintext |-> TextDecode(bytes),
   aead |-> TRUE]

VersionOf(packed) == packed[1] * 256 + packed[2]

IvOf(packed) == Take(Drop(packed, 2), IV_LENGTH)

CiphertextOf(packed) == Drop(packed, 2 + IV_LENGTH)

\* decryption attempted before the version is looked at
DecryptPackedVersionLast(decoded, encryptionKey) ==
  LET packed == decoded.bytes
      plain  == AesGcmDecrypt(encryptionKey, IvOf(packed), CiphertextOf(packed))
  IN  IF ~decoded.ok THEN Failure("InvalidCharacterError", FALSE)
      ELSE IF ~plain.ok THEN Failure("AuthenticationError", TRUE)
      ELSE IF Len(packed) < 2 THEN Failure("RangeError", TRUE)
      ELSE IF VersionOf(packed) # VERSION THEN Failure("VersionError", TRUE)
      ELSE Success(plain.bytes)

\* the bytes decoded so far handed back with the error
DecryptPackedPartial(decoded, encryptionKey) ==
  LET packed == decoded.bytes
      plain  == AesGcmDecrypt(encryptionKey, IvOf(packed), CiphertextOf(packed))
  IN  IF ~decoded.ok THEN Failure("InvalidCharacterError", FALSE)
      ELSE IF Len(packed) < 2 THEN Failure("RangeError", FALSE)
      ELSE IF VersionOf(packed) # VERSION THEN Failure("VersionError", FALSE)
      ELSE IF ~plain.ok
        THEN [ok |-> FALSE, error |-> "AuthenticationError",
              plaintext |-> TextDecode(CiphertextOf(packed)), aead |-> TRUE]
      ELSE Success(plain.bytes)

\* decryptItem from the decoded blob on
DecryptPacked(decoded, encryptionKey) ==
  LET packed == decoded.bytes
  IN  IF ~decoded.ok THEN Failure("InvalidCharacterError", FALSE)
      ELSE IF Len(packed) < 2 THEN Failure("RangeError", FALSE)
      ELSE IF VersionOf(packed) # VERSION THEN Failure("VersionError", FALSE)
      ELSE
        LET plain == AesGcmDecrypt(encryptionKey, IvOf(packed),
                                   CiphertextOf(packed))
        IN  IF ~plain.ok THEN Failure("AuthenticationError", TRUE)
            ELSE Success(plain.bytes)

\* The outcome of decryptItem: ok with the plaintext, or the exception it
\* throws: InvalidCharacterError (atob), RangeError (getUint16 on fewer than
\* two bytes), VersionError (the unsupported-version Error), or
\* AuthenticationError (the OperationError crypto.subtle.decrypt rejects with).
\* aead tells whether crypto.subtle.decrypt was invoked.
decryptItem(blob, encryptionKey) ==
  DecryptPacked(fromBase64Url(blob.ciphertext), encryptionKey)

-----------------------------------------------------------------------------
(* Bounds and input sets of the cipher checks *)

NumKeys == 2

NumIVs == 2

MaxCalls == 2

Keys == 1..NumKeys

\* the values crypto.getRandomValues(new Uint8Array(IV_LENGTH)) may return
IVs == { [i \in 1..IV_LENGTH |-> (n * i) % 256] : n \in 0..(NumIVs - 1) }

\* "", "hi", U+00E9, U+20AC, U+1F600 (a surrogate pair), an unpaired high
\* surrogate, an unpaired low surrogate then "h", U+FEFF then "a", "a" then
\* U+FEFF
Plaintexts ==
  { <<>>, <<104, 105>>, <<233>>, <<8364>>, <<55357, 56832>>,
    <<55296>>, <<56832, 104>>, <<65279, 97>>, <<97, 65279>> }

CallPlaintexts == { <<104, 105>>, <<65279, 97>> }

OtherVersions == {0, 2, 256, 257, 65535}

\* a string every code unit of which is part of a well-formed surrogate pair
\* or no surrogate at all
WellFormed(str) == ToCodeUnits(ToScalarValues(str)) = str

\* what TextDecoder drops: a leading U+FEFF
LeadingBOM(str) == Len(str) >= 1 /\ str[1] = 65279

-----------------------------------------------------------------------------
(* The cipher applied to drawn inputs.  encs: the encryptItem calls made,  *)
(* each with its arguments, the iv it drew and the blob it returned.  op:  *)
(* the decryptItem call applied to one of them, with the blob text given   *)
(* to it.                                                                  *)

NoOp == [kind |-> "none", idx |-> 0, key |-> 0, arg |-> 0, input |-> <<>>,
         res |-> Failure("none", FALSE)]

CipherInit ==
  /\ encs = <<>>
  /\ op = NoOp

FlipBit(bytes, pos) ==
  LET at  == pos \div 8 + 1
      bit == 2 ^ (pos % 8)
  IN  [bytes EXCEPT ![at] =
         IF (bytes[at] \div bit) % 2 = 1 THEN bytes[at] - bit
         ELSE bytes[at] + bit]

Packed(e) == fromBase64Url(e.blob.ciphertext).bytes

DecryptOp(kind, i, key, arg, text) ==
  [kind |-> kind, idx |-> i, key |-> key, arg |-> arg, input |-> text,
   res |-> decryptItem([ciphertext |-> text, version |-> 1], key)]

\* encryptItem(P, K) with P drawn from S
EncryptItemFrom(S) ==
  /\ Len(encs) < MaxCalls
  /\ \E P \in S, K \in Keys, iv \in IVs :
       encs' = Append(encs, [plaintext |-> P, key |-> K, iv |-> iv,
                             blob |-> encryptItem(P, K, iv)])
  /\ op' = NoOp
  /\ UNCHANGED << shareVars, appVars, sysVars, utilVars >>

EncryptItemCall == EncryptItemFrom(Plaintexts)

EncryptItemAgain == EncryptItemFrom(CallPlaintexts)

\* decryptItem(blob, K) on a blob as returned
DecryptItemCall ==
  /\ op = NoOp
  /\ \E i \in DOMAIN encs, K \in Keys :
       op' = DecryptOp("decrypt", i, K, 0, encs[i].blob.ciphertext)
  /\ UNCHANGED encs
  /\ UNCHANGED << shareVars, appVars, sysVars, utilVars >>

\* decryptItem under the key of the call that produced the blob
DecryptOwnCall ==
  /\ op = NoOp
  /\ \E i \in DOMAIN encs :
       op' = DecryptOp("decrypt", i, encs[i].key, 0, encs[i].blob.ciphertext)
  /\ UNCHANGED encs
  /\ UNCHANGED << shareVars, appVars, sysVars, utilVars >>

\* one bit of the decoded blob flipped, then decryptItem under the same key
FlipBitDecrypt ==
  /\ op = NoOp
  /\ \E i \in DOMAIN encs :
       \E pos \in 0..(8 * Len(Packed(encs[i])) - 1) :
         op' = DecryptOp("flip", i, encs[i].key, pos,
                         toBase64Url(FlipBit(Packed(encs[i]), pos)))
  /\ UNCHANGED encs
  /\ UNCHANGED << shareVars, appVars, sysVars, utilVars >>

\* the version field replaced by an unsupported value, the rest untouched
SetVersionDecrypt ==
  /\ op = NoOp
  /\ \E i \in DOMAIN encs, v \in OtherVersions, K \in Keys :
       op' = DecryptOp("version", i, K, v,
                       toBase64Url(Uint16BE(v) \o Drop(Packed(encs[i]), 2)))
  /\ UNCHANGED encs
  /\ UNCHANGED << shareVars, appVars, sysVars, utilVars >>

\* the last n characters of the blob text cut off
TruncateDecrypt ==
  /\ op = NoOp
  /\ \E i \in DOMAIN encs :
       \E n \in 1..Len(encs[i].blob.ciphertext) :
         op' = DecryptOp("truncate", i, encs[i].key, n,
                         Take(encs[i].blob.ciphertext,
                              Len(encs[i].blob.ciphertext) - n))
  /\ UNCHANGED encs
  /\ UNCHANGED << shareVars, appVars, sysVars, utilVars >>

EncryptFirst == encs = <<>> /\ EncryptItemCall

NextCipher ==
  \/ EncryptFirst
  \/ DecryptItemCall
  \/ FlipBitDecrypt
  \/ SetVersionDecrypt
  \/ TruncateDecrypt

NextCalls ==
  \/ EncryptItemAgain
  \/ DecryptOwnCall

-----------------------------------------------------------------------------
(* sharing.ts: ECDH keypairs and pairwise re-encryption.  The curve is     *)
(* modelled by the multiplicative group modulo GroupP generated by GroupG: *)
(* a private key is an exponent, the public key the generator raised to    *)
(* it, and the agreed secret the counterpart's public key raised to the    *)
(* own private key.  The AES key imported from the secret is named by it.  *)

GroupP == 251

GroupG == 6

NumScalars == 3

Scalars == 1..NumScalars

Users == {"alice", "bob", "carol"}

SharePlaintexts == { <<104, 105>>, <<65279, 97>>, <<55296>> }

RECURSIVE ModExp(_, _, _)
ModExp(base, e, m) ==
  IF e = 0 THEN 1 ELSE (base * ModExp(base, e - 1, m)) % m

\* the keypair crypto.subtle.generateKey returns when it draws exponent d
generateUserKeyPair(d) ==
  [publicKey |-> ModExp(GroupG, d, GroupP), privateKey |-> d]

\* the key taken from the own keypair alone
deriveOwnKey(ownPrivateKey, theirPublicKey) ==
  ModExp(GroupG, ownPrivateKey, GroupP)

\* one key for every pair of users
deriveGroupKey(ownPrivateKey, theirPublicKey) ==
  GroupG

deriveSharedKey(ownPrivateKey, theirPublicKey) ==
  ModExp(theirPublicKey, ownPrivateKey, GroupP)

encryptItemForRecipient(plaintext, senderPrivateKey, recipientPublicKey, iv) ==
  encryptItem(plaintext, deriveSharedKey(senderPrivateKey, recipientPublicKey),
              iv).ciphertext

\* the two arguments of deriveSharedKey exchanged
decryptSharedItemSwapped(ciphertext, recipientPrivateKey, senderPublicKey) ==
  decryptItem([ciphertext |-> ciphertext, version |-> 1],
              deriveSharedKey(senderPublicKey, recipientPrivateKey))

decryptSharedItem(ciphertext, recipientPrivateKey, senderPublicKey) ==
  decryptItem([ciphertext |-> ciphertext, version |-> 1],
              deriveSharedKey(recipientPrivateKey, senderPublicKey))

\* crypto.subtle.exportKey: the DER prefix of the format, then the key
SpkiPrefix == <<48, 89>>

Pkcs8Prefix == <<48, 129>>

ExportKey(prefix, key) == prefix \o <<key>>

\* crypto.subtle.importKey: ok is FALSE where it throws DataError
ImportKey(prefix, data) ==
  IF Len(data) = Len(prefix) + 1 /\ Take(data, Len(prefix)) = prefix
  THEN [ok |-> TRUE, error |-> "none", key |-> data[Len(data)]]
  ELSE [ok |-> FALSE, error |-> "DataError", key |-> 0]

exportPublicKey(publicKey) ==
  [key |-> toBase64Url(ExportKey(SpkiPrefix, publicKey))]

importPublicKey(exported) ==
  LET spki == fromBase64Url(exported.key)
  IN  IF ~spki.ok
      THEN [ok |-> FALSE, error |-> "InvalidCharacterError", key |-> 0]
      ELSE ImportKey(SpkiPrefix, spki.bytes)

\* the exported private key handed over as it is
exportPrivateKey(privateKey, encryptionKey, iv) ==
  toBase64Url(ExportKey(Pkcs8Prefix, privateKey))

encryptPrivateKey(privateKey, encryptionKey, iv) ==
  LET pkcs8 == ExportKey(Pkcs8Prefix, privateKey)
  IN  encryptItem(toBase64Url(pkcs8), encryptionKey, iv).ciphertext

\* the key read without the tag being verified
decryptPrivateKeyUnverified(encryptedPrivateKey, encryptionKey) ==
  LET packed == fromBase64Url(encryptedPrivateKey).bytes
      body == CiphertextOf(packed)
      plain == AesCtrDecrypt(encryptionKey, IvOf(packed), body)
  IN  ImportKey(Pkcs8Prefix, fromBase64Url(TextDecode(plain.bytes)).bytes)

decryptPrivateKey(encryptedPrivateKey, encryptionKey) ==
  LET pkcs8B64 == decryptItem([ciphertext |-> encryptedPrivateKey,
                               version |-> 1], encryptionKey)
      pkcs8 == fromBase64Url(pkcs8B64.plaintext)
  IN  IF ~pkcs8B64.ok
      THEN [ok |-> FALSE, error |-> pkcs8B64.error, key |-> 0]
      ELSE IF ~pkcs8.ok
      THEN [ok |-> FALSE, error |-> "InvalidCharacterError", key |-> 0]
      ELSE ImportKey(Pkcs8Prefix, pkcs8.bytes)

NoPair == [publicKey |-> 0, privateKey |-> 0]

NoShare == [sender |-> "none", recipient |-> "none", plaintext |-> <<>>,
            ciphertext |-> <<>>]

NoSop == [kind |-> "none", a |-> "none", b |-> "none", keyAB |-> 0,
          keyBA |-> 0, ciphertext |-> <<>>, res |-> Failure("none", FALSE),
          unwrapped |-> [ok |-> FALSE, error |-> "none", key |-> 0]]

\* the users row of an account that has sent neither key
NoKeys == [publicKey |-> <<>>, encryptedPrivateKey |-> <<>>]

ShareInit ==
  /\ pairs = [u \in Users |-> NoPair]
  /\ shared = NoShare
  /\ sop = NoSop
  /\ server = [u \in Users |-> NoKeys]

\* account creation of user u
GenerateUserKeyPair(u) ==
  /\ pairs[u] = NoPair
  /\ shared = NoShare
  /\ sop = NoSop
  /\ \E d \in Scalars : pairs' = [pairs EXCEPT ![u] = generateUserKeyPair(d)]
  /\ UNCHANGED << shared, sop, server, cipherVars, appVars, sysVars, utilVars >>

\* a and b each derive the key for the other
DeriveSharedKeyCall(a, b) ==
  /\ a # b
  /\ pairs[a] # NoPair /\ pairs[b] # NoPair
  /\ shared = NoShare
  /\ sop = NoSop
  /\ sop' = [NoSop EXCEPT
               !.kind = "derive", !.a = a, !.b = b,
               !.keyAB = deriveSharedKey(pairs[a].privateKey, pairs[b].publicKey),
               !.keyBA = deriveSharedKey(pairs[b].privateKey, pairs[a].publicKey)]
  /\ UNCHANGED << pairs, shared, server, cipherVars, appVars, sysVars, utilVars >>

\* a shares an item with b
EncryptItemForRecipientCall(a, b) ==
  /\ a # b
  /\ pairs[a] # NoPair /\ pairs[b] # NoPair
  /\ shared = NoShare
  /\ sop = NoSop
  /\ \E P \in SharePlaintexts, iv \in IVs :
       shared' = [sender |-> a, recipient |-> b, plaintext |-> P,
                  ciphertext |->
                    encryptItemForRecipient(P, pairs[a].privateKey,
                                            pairs[b].publicKey, iv)]
  /\ UNCHANGED << pairs, sop, server, cipherVars, appVars, sysVars, utilVars >>

\* r decrypts the shared item with its private key and s's public key
DecryptSharedItemCall(r, s) ==
  /\ r # s
  /\ pairs[r] # NoPair /\ pairs[s] # NoPair
  /\ shared # NoShare
  /\ sop = NoSop
  /\ sop' = [NoSop EXCEPT
               !.kind = "decryptShared", !.a = r, !.b = s,
               !.res = decryptSharedItem(shared.ciphertext,
                                         pairs[r].privateKey,
                                         pairs[s].publicKey)]
  /\ UNCHANGED << pairs, shared, server, cipherVars, appVars, sysVars, utilVars >>

\* the sender shares the same item with a second recipient c; the first
\* recipient then tries c's copy
EncryptItemForSecondRecipientCall(c) ==
  /\ shared # NoShare
  /\ c \notin {shared.sender, shared.recipient}
  /\ pairs[c] # NoPair
  /\ sop = NoSop
  /\ \E iv \in IVs :
       LET sender == pairs[shared.sender]
           first == pairs[shared.recipient]
           copy == encryptItemForRecipient(shared.plaintext, sender.privateKey,
                                           pairs[c].publicKey, iv)
       IN  sop' = [NoSop EXCEPT
                     !.kind = "shareAgain", !.a = shared.sender, !.b = c,
                     !.keyAB = deriveSharedKey(sender.privateKey, first.publicKey),
                     !.keyBA = deriveSharedKey(sender.privateKey, pairs[c].publicKey),
                     !.ciphertext = copy,
                     !.res = decryptSharedItem(copy, first.privateKey,
                                               sender.publicKey)]
  /\ UNCHANGED << pairs, shared, server, cipherVars, appVars, sysVars, utilVars >>

\* u exports the public key and registers it
ExportPublicKeyCall(u) ==
  /\ pairs[u] # NoPair
  /\ server[u].publicKey = <<>>
  /\ sop = NoSop
  /\ server' = [server EXCEPT
                  ![u].publicKey = exportPublicKey(pairs[u].publicKey).key]
  /\ UNCHANGED << pairs, shared, sop, cipherVars, appVars, sysVars, utilVars >>

\* u wraps the private key under a vault encryption key and registers it
EncryptPrivateKeyCall(u) ==
  /\ pairs[u] # NoPair
  /\ server[u].encryptedPrivateKey = <<>>
  /\ sop = NoSop
  /\ \E encryptionKey \in Keys, iv \in IVs :
       server' = [server EXCEPT
                    ![u].encryptedPrivateKey =
                      encryptPrivateKey(pairs[u].privateKey, encryptionKey, iv)]
  /\ UNCHANGED << pairs, shared, sop, cipherVars, appVars, sysVars, utilVars >>

\* u unwraps the registered private key under some encryption key
DecryptPrivateKeyCall(u) ==
  /\ server[u].encryptedPrivateKey # <<>>
  /\ sop = NoSop
  /\ \E encryptionKey \in Keys :
       sop' = [NoSop EXCEPT
                 !.kind = "unwrap", !.a = u, !.keyAB = encryptionKey,
                 !.unwrapped = decryptPrivateKey(server[u].encryptedPrivateKey,
                                                 encryptionKey)]
  /\ UNCHANGED << pairs, shared, server, cipherVars, appVars, sysVars, utilVars >>

NextShare ==
  \/ \E u \in Users : GenerateUserKeyPair(u)
  \/ \E a, b \in Users : DeriveSharedKeyCall(a, b)
  \/ \E a, b \in Users : EncryptItemForRecipientCall(a, b)
  \/ \E r, s \in Users : DecryptSharedItemCall(r, s)
  \/ \E c \in Users : EncryptItemForSecondRecipientCall(c)

\* the accounts whose registration and sharing the server watches
Accounts == {"alice", "bob"}

NextServer ==
  \/ \E u \in Accounts : GenerateUserKeyPair(u)
  \/ \E u \in Accounts : ExportPublicKeyCall(u)
  \/ \E u \in Accounts : EncryptPrivateKeyCall(u)
  \/ \E a, b \in Accounts : EncryptItemForRecipientCall(a, b)
  \/ \E u \in Accounts : DecryptPrivateKeyCall(u)

-----------------------------------------------------------------------------
(* Key derivation (kdf.ts) *)

\* null where a CryptoKey is expected
NoKey == 0

\* Argon2id over the password's UTF-8 bytes and the salt: deterministic,
\* never failing, and different for different (password, salt) among those
\* drawn below
deriveMasterKey(password, salt) ==
  [keyMaterial |-> (SumSeq(TextEncode(password)) + WeightedSum(salt, 1)) % 127,
   salt |-> salt]

\* HKDF-SHA256 deriveKey: the key depends on the input key material and on
\* the salt and info given, and differs between different key materials
HkdfDeriveKey(keyMaterial, salt, info) ==
  2 * keyMaterial + 2 - ((SumSeq(salt) + Len(info)) % 2)

\* "keynest-encryption-key-v1" and "encryption"
EncryptionLabel ==
  [salt |-> << 107, 101, 121, 110, 101, 115, 116, 45, 101, 110, 99, 114, 121, 112, 116, 105, 111, 110, 45, 107, 101, 121, 45, 118, 49 >>,
   info |-> << 101, 110, 99, 114, 121, 112, 116, 105, 111, 110 >>]

\* "keynest-mac-key-v1" and "mac"
MacLabel ==
  [salt |-> << 107, 101, 121, 110, 101, 115, 116, 45, 109, 97, 99, 45, 107, 101, 121, 45, 118, 49 >>,
   info |-> << 109, 97, 99 >>]

\* both keys derived with the salt and info of the encryption key
deriveSubkeysOneLabel(keyMaterial) ==
  LET key == HkdfDeriveKey(keyMaterial, TextEncode(EncryptionLabel.salt),
                           TextEncode(EncryptionLabel.info))
  IN  [encryptionKey |-> key, macKey |-> key]

deriveSubkeys(keyMaterial) ==
  [encryptionKey |->
     HkdfDeriveKey(keyMaterial, TextEncode(EncryptionLabel.salt),
                   TextEncode(EncryptionLabel.info)),
   macKey |->
     HkdfDeriveKey(keyMaterial, TextEncode(MacLabel.salt),
                   TextEncode(MacLabel.info))]

\* the encryption key both RegisterView and UnlockView derive
EncryptionKeyFor(password, salt) ==
  deriveSubkeys(deriveMasterKey(password, salt).keyMaterial).encryptionKey

\* the master keys deriveSubkeys is applied to
NumMasterKeys == 127

NoSubkeys == [encryptionKey |-> NoKey, macKey |-> NoKey]

NoKdfOp == [kind |-> "none", keyMaterial |-> 0, first |-> NoSubkeys,
            again |-> NoSubkeys]

KdfInit == kdfOp = NoKdfOp

\* deriveSubkeys applied to a master key
DeriveSubkeysCall ==
  /\ kdfOp = NoKdfOp
  /\ \E keyMaterial \in 0..(NumMasterKeys - 1) :
       kdfOp' = [NoKdfOp EXCEPT !.kind = "derived",
                                !.keyMaterial = keyMaterial,
                                !.first = deriveSubkeys(keyMaterial)]
  /\ UNCHANGED << breachOp, genOp, cipherVars, shareVars, appVars, sysVars >>

\* deriveSubkeys applied to the same master key once more
DeriveSubkeysAgain ==
  /\ kdfOp.kind = "derived"
  /\ kdfOp' = [kdfOp EXCEPT !.kind = "derivedAgain",
                            !.again = deriveSubkeys(kdfOp.keyMaterial)]
  /\ UNCHANGED << breachOp, genOp, cipherVars, shareVars, appVars, sysVars >>

NextKdf ==
  \/ DeriveSubkeysCall
  \/ DeriveSubkeysAgain

(* Argon2 runtime loader *)

\* let argon2Instance = null
NoInstance == "null"

\* what loadArgon2 resolves to: the argon2-browser module
Argon2Module == "argon2-browser"

MaxDerivations == 3

\* what the calls are given: "pw" or "q", and one of two salts
DerivePasswords == { << 112, 119 >>, << 113 >> }

DeriveSalts == { << 1, 2, 3 >>, << 4, 5, 6 >> }

NoDerivation ==
  [pc |-> "idle", password |-> << >>, salt |-> << >>, keyMaterial |-> NoKey]

ArgonInit ==
  /\ argon2Instance = NoInstance
  /\ loads = 0
  /\ derivations = [c \in 1..MaxDerivations |-> NoDerivation]

\* deriveMasterKey up to the first await of getArgon2: loadArgon2 is called
\* where argon2Instance is null
DeriveMasterKeyCall(c) ==
  /\ derivations[c].pc = "idle"
  /\ \E password \in DerivePasswords, salt \in DeriveSalts :
       derivations' =
         [derivations EXCEPT
            ![c] = [NoDerivation EXCEPT
                      !.pc = IF argon2Instance = NoInstance THEN "loading"
                             ELSE "hashing",
                      !.password = password, !.salt = salt]]
  /\ loads' = IF argon2Instance = NoInstance THEN loads + 1 ELSE loads
  /\ UNCHANGED << argon2Instance, authVars, vaultVars, libVars, appVars >>

\* loadArgon2 resolves: getArgon2 assigns argon2Instance and returns it
LoadArgon2Settles(c) ==
  /\ derivations[c].pc = "loading"
  /\ argon2Instance' = Argon2Module
  /\ derivations' = [derivations EXCEPT ![c].pc = "hashing"]
  /\ UNCHANGED << loads, authVars, vaultVars, libVars, appVars >>

\* argon2.hash resolves: deriveMasterKey returns
HashSettles(c) ==
  /\ derivations[c].pc = "hashing"
  /\ derivations' =
       [derivations EXCEPT
          ![c].pc = "done",
          ![c].keyMaterial =
            deriveMasterKey(derivations[c].password,
                            derivations[c].salt).keyMaterial]
  /\ UNCHANGED << argon2Instance, loads, authVars, vaultVars, libVars,
                  appVars >>

NextArgon ==
  \E c \in 1..MaxDerivations :
    \/ DeriveMasterKeyCall(c)
    \/ LoadArgon2Settles(c)
    \/ HashSettles(c)

-----------------------------------------------------------------------------
(* breach.ts: the k-anonymity range query *)

\* "https://api.pwnedpasswords.com/range/"
HIBP_API ==
  << 104, 116, 116, 112, 115, 58, 47, 47, 97, 112, 105, 46,
     112, 119, 110, 101, 100, 112, 97, 115, 115, 119, 111, 114,
     100, 115, 46, 99, 111, 109, 47, 114, 97, 110, 103, 101,
     47 >>

\* crypto.subtle.digest("SHA-1", data) written as lower-case hex: 20 bytes
\* that depend on every byte of the input and on its length
sha1(input) ==
  LET data == TextEncode(input)
      sum == SumSeq(data)
      weighted == WeightedSum(data, 1)
      HashByte(i) == (7 * sum + i * weighted + 31 * i + Len(data)) % 256
      HexDigit(n) == IF n < 10 THEN 48 + n ELSE 87 + n
  IN  [j \in 1..40 |->
         IF j % 2 = 1 THEN HexDigit(HashByte((j + 1) \div 2) \div 16)
         ELSE HexDigit(HashByte(j \div 2) % 16)]

toUpperCase(str) ==
  [i \in 1..Len(str) |-> IF str[i] \in 97..122 THEN str[i] - 32 ELSE str[i]]

\* the request sent with the whole hash in the path
FullHashRequest(hash) ==
  [url |-> HIBP_API \o toUpperCase(hash),
   headers |-> { << "Add-Padding", "true" >> }]

\* the fetch call for a hash
RangeRequest(hash) ==
  [url |-> HIBP_API \o toUpperCase(Take(hash, 5)),
   headers |-> { << "Add-Padding", "true" >> }]

RECURSIVE Split(_, _)
\* String.prototype.split with a non-empty separator string
Split(text, sep) ==
  LET hits == { i \in 1..(Len(text) - Len(sep) + 1) :
                  SubSeq(text, i, i + Len(sep) - 1) = sep }
  IN  IF hits = {} THEN << text >>
      ELSE LET at == CHOOSE i \in hits : \A j \in hits : i <= j
           IN  << SubSeq(text, 1, at - 1) >>
                 \o Split(Drop(text, at - 1 + Len(sep)), sep)

\* the value parseInt gives a string that is not a number
NaN == -1

RECURSIVE Digits(_, _)
\* the number read from the leading decimal digits of str after acc
Digits(str, acc) ==
  IF str = <<>> \/ Head(str) \notin 48..57 THEN acc
  ELSE Digits(Tail(str), 10 * acc + Head(str) - 48)

\* parseInt(str, 10) of a string without sign or leading white space
parseInt(str) ==
  IF str = <<>> \/ Head(str) \notin 48..57 THEN NaN ELSE Digits(str, 0)

NoResult == [thrown |-> FALSE, error |-> "none", breached |-> FALSE, count |-> 0]

Thrown(error) == [NoResult EXCEPT !.thrown = TRUE, !.error = error]

RECURSIVE MatchLines(_, _)
\* the loop over the lines of the response
MatchLines(lines, suffix) ==
  IF lines = <<>> THEN NoResult
  ELSE LET parts == Split(Head(lines), << 58 >>)
           count == IF Len(parts) >= 2 THEN parseInt(parts[2]) ELSE 0
       IN  IF parts[1] = suffix
           THEN [NoResult EXCEPT !.breached = count > 0, !.count = count]
           ELSE MatchLines(Tail(lines), suffix)

\* a fetch that rejects, or the response it resolves to
NetworkFailure == [kind |-> "rejected", ok |-> FALSE, status |-> 0, text |-> <<>>]

Response(status, text) ==
  [kind |-> "response", ok |-> status \in 200..299, status |-> status,
   text |-> text]

\* the lines compared with the whole hash
checkResponseFullHash(password, response) ==
  IF response.kind = "rejected" \/ ~response.ok THEN Thrown("NetworkError")
  ELSE MatchLines(Split(response.text, << 13, 10 >>),
                  toUpperCase(sha1(password)))

\* checkPasswordBreach from the settling of fetch on
checkResponse(password, response) ==
  LET suffix == toUpperCase(Drop(sha1(password), 5))
  IN  IF response.kind = "rejected" \/ ~response.ok THEN Thrown("NetworkError")
      ELSE MatchLines(Split(response.text, << 13, 10 >>), suffix)

\* passwords of several lengths, one of them not ASCII
BreachPasswords ==
  { << 97 >>, << 112, 119 >>, << 233, 8364 >>,
    << 104, 117, 110, 116, 101, 114, 50, 104, 117, 110, 116, 101, 114, 50 >> }

MaxRecords == 2

\* the suffix of the password's hash and a suffix of another hash
Suffixes(password) ==
  LET own == toUpperCase(Drop(sha1(password), 5))
  IN  { own, [own EXCEPT ![35] = IF own[35] = 48 THEN 49 ELSE 48] }

\* "0", "3" and "12"
Counts == { << 48 >>, << 51 >>, << 49, 50 >> }

\* CRLF, and LF alone
Delimiters == { << 13, 10 >>, << 10 >> }

RECURSIVE Join(_, _)
Join(records, delimiter) ==
  IF records = <<>> THEN <<>>
  ELSE Head(records).suffix \o << 58 >> \o Head(records).count
         \o (IF Len(records) = 1 THEN <<>>
             ELSE delimiter \o Join(Tail(records), delimiter))

\* the records of a range: no suffix twice
Ranges(password) ==
  LET Records == [suffix : Suffixes(password), count : Counts]
  IN  { r \in UNION { [1..n -> Records] : n \in 0..MaxRecords } :
          \A i, j \in DOMAIN r : i # j => r[i].suffix # r[j].suffix }

NoBreachOp ==
  [pc |-> "none", password |-> <<>>, requests |-> <<>>, records |-> <<>>,
   delimiter |-> <<>>, response |-> NetworkFailure, result |-> NoResult]

BreachInit == breachOp = NoBreachOp

\* checkPasswordBreach up to the await of fetch
CheckPasswordBreachCall ==
  /\ breachOp = NoBreachOp
  /\ \E password \in BreachPasswords :
       breachOp' = [NoBreachOp EXCEPT
                      !.pc = "fetching", !.password = password,
                      !.requests = << RangeRequest(sha1(password)) >>]
  /\ UNCHANGED << kdfOp, genOp, cipherVars, shareVars, appVars, sysVars >>

Settled(response) ==
  [breachOp EXCEPT !.pc = "settled", !.response = response,
                   !.result = checkResponse(breachOp.password, response)]

\* fetch rejects: the service cannot be reached
FetchRejects ==
  /\ breachOp.pc = "fetching"
  /\ breachOp' = Settled(NetworkFailure)
  /\ UNCHANGED << kdfOp, genOp, cipherVars, shareVars, appVars, sysVars >>

\* the service answers with an error status
FetchNotOk ==
  /\ breachOp.pc = "fetching"
  /\ \E status \in {404, 503} : breachOp' = Settled(Response(status, <<>>))
  /\ UNCHANGED << kdfOp, genOp, cipherVars, shareVars, appVars, sysVars >>

\* the service answers with the records of a range
FetchOk ==
  /\ breachOp.pc = "fetching"
  /\ \E records \in Ranges(breachOp.password), delimiter \in Delimiters :
       breachOp' = [Settled(Response(200, Join(records, delimiter)))
                      EXCEPT !.records = records, !.delimiter = delimiter]
  /\ UNCHANGED << kdfOp, genOp, cipherVars, shareVars, appVars, sysVars >>

NextBreach ==
  \/ CheckPasswordBreachCall
  \/ FetchRejects
  \/ FetchNotOk
  \/ FetchOk

-----------------------------------------------------------------------------
(* password-gen.ts *)

CHARSETS ==
  [uppercase |->
     << 65, 66, 67, 68, 69, 70, 71, 72, 73, 74, 75, 76,
        77, 78, 79, 80, 81, 82, 83, 84, 85, 86, 87, 88,
        89, 90 >>,
   lowercase |->
     << 97, 98, 99, 100, 101, 102, 103, 104, 105, 106, 107, 108,
        109, 110, 111, 112, 113, 114, 115, 116, 117, 118, 119, 120,
        121, 122 >>,
   digits |-> << 48, 49, 50, 51, 52, 53, 54, 55, 56, 57 >>,
   symbols |->
     << 33, 64, 35, 36, 37, 94, 38, 42, 40, 41, 95, 43,
        45, 61, 91, 93, 123, 125, 124, 59, 58, 44, 46, 60,
        62, 63 >>]

\* the classes in the order generatePassword appends them
Classes == << "uppercase", "lowercase", "digits", "symbols" >>

\* { ...DEFAULTS, ...options }: a class that options does not name is on
Requested(options, class) ==
  IF class \in DOMAIN options.classes THEN options.classes[class] ELSE TRUE

RECURSIVE Concat(_, _)
\* the sets of the requested classes from the i-th on, appended in order
Concat(options, i) ==
  IF i > Len(Classes) THEN <<>>
  ELSE (IF Requested(options, Classes[i]) THEN CHARSETS[Classes[i]] ELSE <<>>)
         \o Concat(options, i + 1)

\* the filter left out
KeepExcluded(charset, exclude) ==
  charset

\* charset.split("").filter((c) => !opts.exclude.includes(c)).join("")
FilterExcluded(charset, exclude) ==
  LET includes(c) == \E i \in DOMAIN exclude : exclude[i] = c
      keep(c) == ~includes(c)
  IN  SelectSeq(charset, keep)

\* the pool generatePassword draws from
Charset(options) ==
  FilterExcluded(Concat(options, 1), options.exclude)

\* the loop with the test of the byte against maxValid left out
SampleBiased(password, charset, byte) ==
  Append(password, charset[(byte % Len(charset)) + 1])

\* what the loop does with one random byte
Sample(password, charset, byte) ==
  LET maxValid == (256 \div Len(charset)) * Len(charset)
  IN  IF byte < maxValid
      THEN Append(password, charset[(byte % Len(charset)) + 1])
      ELSE password

MaxLength == 2

\* the classes named in the options, each on or off
ClassChoices ==
  UNION { [named -> BOOLEAN] :
            named \in SUBSET { Classes[i] : i \in DOMAIN Classes } }

\* "", "0O1lI" and every digit
Excludes ==
  { << >>, << 48, 79, 49, 108, 73 >>,
    << 48, 49, 50, 51, 52, 53, 54, 55, 56, 57 >> }

\* the bytes crypto.getRandomValues is seen to give
RandomBytes == {0, 9, 87, 200, 255}

NoGenOp ==
  [pc |-> "none", options |-> [classes |-> << >>, length |-> 0,
                               exclude |-> << >>],
   charset |-> << >>, password |-> << >>]

GenInit == genOp = NoGenOp

\* generatePassword without the check of the pool
GeneratePasswordUnchecked ==
  /\ genOp = NoGenOp
  /\ \E classes \in ClassChoices, length \in 0..MaxLength,
        exclude \in Excludes :
       LET options == [classes |-> classes, length |-> length,
                       exclude |-> exclude]
           charset == Charset(options)
       IN  genOp' = [pc |-> IF Len(charset) = 0 \/ length = 0 THEN "returned"
                            ELSE "sampling",
                     options |-> options, charset |-> charset,
                     password |-> << >>]
  /\ UNCHANGED << kdfOp, breachOp, cipherVars, shareVars, appVars, sysVars >>

\* generatePassword up to the sampling loop; pc "thrown" is the Error of the
\* empty pool (ConfigError)
GeneratePasswordCall ==
  /\ genOp = NoGenOp
  /\ \E classes \in ClassChoices, length \in 0..MaxLength,
        exclude \in Excludes :
       LET options == [classes |-> classes, length |-> length,
                       exclude |-> exclude]
           charset == Charset(options)
       IN  genOp' = [pc |-> IF Len(charset) = 0 THEN "thrown"
                            ELSE IF length = 0 THEN "returned"
                            ELSE "sampling",
                     options |-> options, charset |-> charset,
                     password |-> << >>]
  /\ UNCHANGED << kdfOp, breachOp, cipherVars, shareVars, appVars, sysVars >>

\* the loop takes the next random byte
SampleByte ==
  /\ genOp.pc = "sampling"
  /\ \E byte \in RandomBytes :
       LET password == Sample(genOp.password, genOp.charset, byte)
       IN  genOp' = [genOp EXCEPT
                       !.password = password,
                       !.pc = IF Len(password) < genOp.options.length
                              THEN "sampling" ELSE "returned"]
  /\ UNCHANGED << kdfOp, breachOp, cipherVars, shareVars, appVars, sysVars >>

NextGen ==
  \/ GeneratePasswordCall
  \/ SampleByte

-----------------------------------------------------------------------------
(* JSON text of an item's fields *)

QuoteChar(c) ==
  LET HexDigit(n) == IF n < 10 THEN 48 + n ELSE 87 + n
  IN  IF c = 34 THEN << 92, 34 >>
      ELSE IF c = 92 THEN << 92, 92 >>
      ELSE IF c = 8 THEN << 92, 98 >>
      ELSE IF c = 9 THEN << 92, 116 >>
      ELSE IF c = 10 THEN << 92, 110 >>
      ELSE IF c = 12 THEN << 92, 102 >>
      ELSE IF c = 13 THEN << 92, 114 >>
      ELSE IF c < 32 \/ IsHighSurrogate(c) \/ IsLowSurrogate(c)
           THEN << 92, 117, HexDigit(c \div 4096), HexDigit((c \div 256) % 16),
                   HexDigit((c \div 16) % 16), HexDigit(c % 16) >>
      ELSE << c >>

\* the characters of a JSON string literal: a surrogate pair stays as it
\* is, an unpaired surrogate is escaped
QuoteChars(s) ==
  LET Unit(i) ==
        IF IsHighSurrogate(s[i]) /\ i < Len(s) /\ IsLowSurrogate(s[i + 1])
        THEN << s[i], s[i + 1] >>
        ELSE IF IsLowSurrogate(s[i]) /\ i > 1 /\ IsHighSurrogate(s[i - 1])
        THEN << >>
        ELSE QuoteChar(s[i])
  IN  FlatRange([i \in 1..Len(s) |-> Unit(i)], 1, Len(s))

\* {"content":"
ContentPrefix == << 123, 34, 99, 111, 110, 116, 101, 110, 116, 34, 58, 34 >>

\* JSON.stringify of the fields object of an item
JsonStringify(fields) ==
  ContentPrefix \o QuoteChars(fields.content) \o << 34, 125 >>

RECURSIVE UnquoteChars(_)
\* reads a string literal's characters up to its closing quote
UnquoteChars(s) ==
  LET HexValue(d) ==
        IF d \in 48..57 THEN d - 48
        ELSE IF d \in 97..102 THEN d - 87
        ELSE IF d \in 65..70 THEN d - 55
        ELSE -1
      SimpleEscape(c) ==
        IF c \in {34, 47, 92} THEN c
        ELSE IF c = 98 THEN 8
        ELSE IF c = 102 THEN 12
        ELSE IF c = 110 THEN 10
        ELSE IF c = 114 THEN 13
        ELSE IF c = 116 THEN 9
        ELSE -1
      NoChars == [ok |-> FALSE, chars |-> << >>, rest |-> << >>]
      ConsChar(c, r) == IF r.ok THEN [r EXCEPT !.chars = << c >> \o @] ELSE r
  IN  IF s = << >> THEN NoChars
      ELSE IF s[1] = 34
           THEN [ok |-> TRUE, chars |-> << >>, rest |-> Tail(s)]
      ELSE IF s[1] < 32 THEN NoChars
      ELSE IF s[1] # 92 THEN ConsChar(s[1], UnquoteChars(Tail(s)))
      ELSE IF Len(s) < 2 THEN NoChars
      ELSE IF s[2] = 117
           THEN IF Len(s) >= 6 /\ \A i \in 3..6 : HexValue(s[i]) >= 0
                THEN ConsChar(HexValue(s[3]) * 4096 + HexValue(s[4]) * 256
                                + HexValue(s[5]) * 16 + HexValue(s[6]),
                              UnquoteChars(Drop(s, 6)))
                ELSE NoChars
      ELSE IF SimpleEscape(s[2]) >= 0
           THEN ConsChar(SimpleEscape(s[2]), UnquoteChars(Drop(s, 2)))
      ELSE NoChars

NoFields == [content |-> << >>]

\* JSON.parse of a decrypted payload; ok is FALSE where it throws SyntaxError
JsonParse(text) ==
  IF Len(text) < Len(ContentPrefix) \/ Take(text, Len(ContentPrefix)) # ContentPrefix
  THEN [ok |-> FALSE, fields |-> NoFields]
  ELSE LET r == UnquoteChars(Drop(text, Len(ContentPrefix)))
       IN  IF r.ok /\ r.rest = << 125 >>
           THEN [ok |-> TRUE, fields |-> [content |-> r.chars]]
           ELSE [ok |-> FALSE, fields |-> NoFields]

-----------------------------------------------------------------------------
(* The vault helpers (vault-store) and localStorage (local-vault.ts) *)

\* what localStorage.getItem returns for a key never set; the code tests
\* the value for falsiness, which the empty string shares with null
NoText == << >>

NoId == 0

\* keynest-vault-check-v1
VAULT_CHECK_PLAINTEXT ==
  << 107, 101, 121, 110, 101, 115, 116, 45, 118, 97, 117, 108,
     116, 45, 99, 104, 101, 99, 107, 45, 118, 49 >>

\* crypto.subtle.encrypt rejects when the key is null
EncryptUnder(plaintext, key, iv) ==
  IF key = NoKey
  THEN [ok |-> FALSE, blob |-> [ciphertext |-> NoText, version |-> VERSION]]
  ELSE [ok |-> TRUE, blob |-> encryptItem(plaintext, key, iv)]

\* ok is FALSE where the promise rejects (decryptItem or JSON.parse throws)
decryptVaultItem(item, key) ==
  LET r == decryptItem([ciphertext |-> item.encryptedData, version |-> 1], key)
      p == JsonParse(r.plaintext)
  IN  IF r.ok /\ p.ok
      THEN [ok |-> TRUE, item |-> [item EXCEPT !._decryptedFields = p.fields]]
      ELSE [ok |-> FALSE, item |-> item]

NoAccount == [email |-> NoText, kdfSalt |-> << >>]

getLocalAccount(ls) ==
  IF ls.kdfSalt = NoText \/ ls.email = NoText THEN NoAccount
  ELSE [email |-> ls.email, kdfSalt |-> atob(ls.kdfSalt).bytes]

\* the part of saveLocalAccount before its await
saveLocalAccountMetadata(ls, email, kdfSalt) ==
  [ls EXCEPT !.email = email, !.kdfSalt = btoa(kdfSalt)]

\* the part of saveLocalAccount after its await
saveLocalAccountCheck(ls, checkBlob) ==
  [ls EXCEPT !.vaultCheck = checkBlob.ciphertext]

\* accepts whenever the blob decodes
verifyAnyPassword(checkCiphertext, encryptionKey) ==
  fromBase64Url(checkCiphertext).ok

\* whether verifyLocalPassword returns rather than throws, for a check
\* blob that is present
verifyLocalPassword(checkCiphertext, encryptionKey) ==
  LET r == decryptItem([ciphertext |-> checkCiphertext, version |-> 1],
                       encryptionKey)
  IN  r.ok /\ r.plaintext = VAULT_CHECK_PLAINTEXT

clearLocalAccount(ls) ==
  [ls EXCEPT !.kdfSalt = NoText, !.email = NoText, !.vaultCheck = NoText]

loadStoredItems(ls) == ls.items

FilterOutId(list, id) ==
  LET Other(i) == i.id # id
  IN  SelectSeq(list, Other)

saveStoredItem(ls, item) ==
  [ls EXCEPT !.items = Append(FilterOutId(loadStoredItems(ls), item.id), item)]

ReplaceById(list, item) ==
  [i \in DOMAIN list |-> IF list[i].id = item.id THEN item ELSE list[i]]

\* replaces the stored item of the same id, where it is
updateStoredItem(ls, item) ==
  [ls EXCEPT !.items = ReplaceById(loadStoredItems(ls), item)]

deleteStoredItem(ls, id) ==
  [ls EXCEPT !.items = FilterOutId(loadStoredItems(ls), id)]

HasId(list, id) == \E i \in DOMAIN list : list[i].id = id

\* Array.prototype.find by id, where HasId holds
FindById(list, id) ==
  list[CHOOSE i \in DOMAIN list :
         list[i].id = id /\ \A j \in DOMAIN list : list[j].id = id => i <= j]

\* the stored form of an item: no decrypted fields
StoredOf(item) ==
  [id |-> item.id, type |-> item.type, encryptedData |-> item.encryptedData]

\* what handleUnlock hands to decryptVaultItem for a stored item
RawItem(stored) ==
  [id |-> stored.id, type |-> stored.type,
   encryptedData |-> stored.encryptedData, _decryptedFields |-> NoFields]

\* Promise.all over decryptVaultItem
DecryptAll(stored, key) ==
  LET rs == [i \in DOMAIN stored |-> decryptVaultItem(RawItem(stored[i]), key)]
  IN  [ok |-> \A i \in DOMAIN rs : rs[i].ok,
       items |-> [i \in DOMAIN rs |-> rs[i].item]]

-----------------------------------------------------------------------------
(* The desktop app: the store (store.ts, in App.tsx), the views, and the   *)
(* handlers' continuations after each await.  Of an item the model keeps   *)
(* the id, the type, the encrypted payload and the decrypted fields; of    *)
(* the fields of every item type, one string.                              *)

MaxItems == 1

NumPasswords == 2

NumSalts == 1

\* how many async handlers may be between an await and its continuation at
\* once
MaxInFlight == 1

\* master passwords that pass the checks of handleCredentials
Passwords ==
  { [i \in 1..12 |-> 96 + ((n + i) % 26)] : n \in 1..NumPasswords }

\* what generateSalt can draw
Salts == { [i \in 1..16 |-> (n * i) % 256] : n \in 1..NumSalts }

\* a@b.c
Email == << 97, 64, 98, 46, 99 >>

\* what the user can type into a form: pw, and a quote followed by an
\* unpaired surrogate
Contents == { << 112, 119 >>, << 34, 55296 >> }

Tabs == { "login", "secure-note" }

InitialStore ==
  [view |-> "locked", isUnlocked |-> FALSE, encryptionKey |-> NoKey,
   items |-> << >>, selectedItemId |-> NoId, editingItemId |-> NoId]

unlock(s, key, list) ==
  [s EXCEPT !.isUnlocked = TRUE, !.encryptionKey = key, !.items = list,
            !.view = "overlay"]

lock(s) ==
  [s EXCEPT !.isUnlocked = FALSE, !.encryptionKey = NoKey, !.items = << >>,
            !.view = "locked", !.selectedItemId = NoId,
            !.editingItemId = NoId]

setView(s, v) == [s EXCEPT !.view = v]

\* the view App renders
Mounted(s) ==
  IF ~s.isUnlocked
  THEN IF s.view = "register" THEN "RegisterView" ELSE "UnlockView"
  ELSE IF s.view = "overlay" THEN "OverlayView"
  ELSE IF s.view = "search" THEN "SearchView"
  ELSE IF s.view = "add-item" THEN "AddItemView"
  ELSE IF s.view = "item-detail" THEN "ItemDetailView"
  ELSE IF s.view = "settings" THEN "SettingsView"
  ELSE "none"

NoItem ==
  [id |-> NoId, type |-> "login", encryptedData |-> NoText,
   _decryptedFields |-> NoFields]

IdleUnlock ==
  [pc |-> "idle", password |-> << >>, kdfSalt |-> << >>,
   encryptionKey |-> NoKey, checkCiphertext |-> NoText,
   storedItems |-> << >>]

IdleRegister ==
  [pc |-> "idle", password |-> << >>, salt |-> << >>,
   encryptionKey |-> NoKey, iv |-> << >>]

IdleSave ==
  [pc |-> "idle", encryptionKey |-> NoKey, items |-> << >>,
   editingItemId |-> NoId, id |-> NoId, tab |-> "login",
   fields |-> NoFields, iv |-> << >>]

IdlePrefill == [pc |-> "idle", encryptionKey |-> NoKey, editingItem |-> NoItem]

\* useState(null) of breachWarning
NoWarning == 0

\* AddItemView as mounted: the login tab, no password typed, no warning, no
\* check running, no timer set, no check in flight
IdleBreach ==
  [tab |-> "login", password |-> << >>, breachWarning |-> NoWarning,
   checkingBreach |-> FALSE, breachTimer |-> << >>, checks |-> << >>]

AppInit ==
  /\ localStorage = [kdfSalt |-> NoText, email |-> NoText,
                     vaultCheck |-> NoText, items |-> << >>]
  /\ store = InitialStore
  /\ unlockView = IdleUnlock
  /\ registerView = IdleRegister
  /\ addItemView = IdleSave
  /\ prefill = IdlePrefill
  /\ unlockError = FALSE
  /\ confirmDelete = FALSE
  /\ confirmClear = FALSE
  /\ uuids = 1
  /\ breachView = IdleBreach

\* the state of a component lasts while it stays mounted
Render(error, delete, clear) ==
  /\ unlockError' = (error /\ Mounted(store') = "UnlockView")
  /\ confirmDelete' = (delete /\ Mounted(store') = "ItemDetailView")
  /\ confirmClear' = (clear /\ Mounted(store') = "SettingsView")
  /\ breachView' = IF Mounted(store') = "AddItemView" THEN breachView
                    ELSE IdleBreach

Rerender == Render(unlockError, confirmDelete, confirmClear)

\* a store action and nothing else
StoreOnly(s) ==
  /\ store' = s
  /\ Rerender
  /\ UNCHANGED << localStorage, unlockView, registerView, addItemView,
                  prefill, uuids, libVars, sysVars >>

InFlight ==
  Cardinality({ p \in { << "unlock", unlockView.pc >>,
                        << "register", registerView.pc >>,
                        << "save", addItemView.pc >>,
                        << "prefill", prefill.pc >> } : p[2] # "idle" })

\* the key a call reads the store's key through at completion
keyInStore(captured) == store.encryptionKey

\* the key an encryptItem / decryptVaultItem call in flight works with: the
\* one its caller passed in
keyInFlight(captured) == captured

(* App *)

\* the vault:lock event
VaultLockEvent == StoreOnly(lock(store))

(* UnlockView *)

UnlockViewEffect ==
  /\ Mounted(store) = "UnlockView"
  /\ getLocalAccount(localStorage) = NoAccount
  /\ StoreOnly(setView(store, "register"))

UseDifferentAccount ==
  /\ Mounted(store) = "UnlockView"
  /\ StoreOnly(setView(store, "register"))

\* handleUnlock up to its first await
HandleUnlock ==
  /\ Mounted(store) = "UnlockView"
  /\ unlockView.pc = "idle"
  /\ InFlight < MaxInFlight
  /\ \E password \in Passwords :
       LET account == getLocalAccount(localStorage)
       IN  IF account = NoAccount
           THEN /\ store' = setView(store, "register")
                /\ unlockView' = unlockView
           ELSE /\ store' = store
                /\ unlockView' = [IdleUnlock EXCEPT
                                    !.pc = "deriving",
                                    !.password = password,
                                    !.kdfSalt = account.kdfSalt]
  /\ Render(FALSE, confirmDelete, confirmClear)
  /\ UNCHANGED << localStorage, registerView, addItemView, prefill, uuids,
                  libVars, sysVars >>

\* the keys are derived; verifyLocalPassword reads the check blob
UnlockDerived ==
  /\ unlockView.pc = "deriving"
  /\ LET key == EncryptionKeyFor(unlockView.password, unlockView.kdfSalt)
         checkCiphertext == localStorage.vaultCheck
     IN  IF checkCiphertext = NoText
         THEN /\ unlockView' = IdleUnlock
              /\ store' = store
              /\ Render(TRUE, confirmDelete, confirmClear)
         ELSE /\ unlockView' = [unlockView EXCEPT
                                  !.pc = "verifying",
                                  !.encryptionKey = key,
                                  !.checkCiphertext = checkCiphertext]
              /\ store' = store
              /\ Rerender
  /\ UNCHANGED << localStorage, registerView, addItemView, prefill, uuids,
                  libVars, sysVars >>

\* the check blob is decrypted; the stored items are loaded
UnlockVerified ==
  /\ unlockView.pc = "verifying"
  /\ IF verifyLocalPassword(unlockView.checkCiphertext,
                            unlockView.encryptionKey)
     THEN /\ unlockView' = [unlockView EXCEPT
                              !.pc = "decrypting",
                              !.storedItems = loadStoredItems(localStorage)]
          /\ store' = store
          /\ Rerender
     ELSE /\ unlockView' = IdleUnlock
          /\ store' = store
          /\ Render(TRUE, confirmDelete, confirmClear)
  /\ UNCHANGED << localStorage, registerView, addItemView, prefill, uuids,
                  libVars, sysVars >>

\* the items are decrypted; the store is unlocked
UnlockDecrypted ==
  /\ unlockView.pc = "decrypting"
  /\ LET r == DecryptAll(unlockView.storedItems, unlockView.encryptionKey)
     IN  IF r.ok
         THEN /\ store' = unlock(store, unlockView.encryptionKey, r.items)
              /\ Rerender
         ELSE /\ store' = store
              /\ Render(TRUE, confirmDelete, confirmClear)
  /\ unlockView' = IdleUnlock
  /\ UNCHANGED << localStorage, registerView, addItemView, prefill, uuids,
                  libVars, sysVars >>

(* RegisterView *)

AlreadyHaveAccount ==
  /\ Mounted(store) = "RegisterView"
  /\ registerView.pc = "idle"
  /\ StoreOnly(setView(store, "unlock"))

\* handleConfirm up to its first await
HandleConfirm ==
  /\ Mounted(store) = "RegisterView"
  /\ registerView.pc = "idle"
  /\ InFlight < MaxInFlight
  /\ \E password \in Passwords, salt \in Salts :
       registerView' = [IdleRegister EXCEPT
                          !.pc = "deriving", !.password = password,
                          !.salt = salt]
  /\ store' = store
  /\ Rerender
  /\ UNCHANGED << localStorage, unlockView, addItemView, prefill, uuids,
                  libVars, sysVars >>

\* the keys are derived; saveLocalAccount runs up to its await
RegisterDerived ==
  /\ registerView.pc = "deriving"
  /\ localStorage' = saveLocalAccountMetadata(localStorage, Email,
                                              registerView.salt)
  /\ \E iv \in IVs :
       registerView' = [registerView EXCEPT
                          !.pc = "saving",
                          !.encryptionKey =
                            EncryptionKeyFor(registerView.password,
                                             registerView.salt),
                          !.iv = iv]
  /\ store' = store
  /\ Rerender
  /\ UNCHANGED << unlockView, addItemView, prefill, uuids, libVars, sysVars >>

\* the check blob is stored; the store is unlocked with no items
RegisterSaved ==
  /\ registerView.pc = "saving"
  /\ localStorage' =
       saveLocalAccountCheck(localStorage,
                             encryptItem(VAULT_CHECK_PLAINTEXT,
                                         registerView.encryptionKey,
                                         registerView.iv))
  /\ store' = unlock(store, registerView.encryptionKey, << >>)
  /\ registerView' = IdleRegister
  /\ Rerender
  /\ UNCHANGED << unlockView, addItemView, prefill, uuids, libVars, sysVars >>

(* OverlayView *)

OverlayAddItem ==
  /\ Mounted(store) = "OverlayView"
  /\ StoreOnly(setView(store, "add-item"))

\* the store's setView taking the overlay to the search view
ShowSearch ==
  /\ Mounted(store) = "OverlayView"
  /\ StoreOnly(setView(store, "search"))

(* SearchView *)

openItem ==
  /\ Mounted(store) = "SearchView"
  /\ \E i \in DOMAIN store.items :
       StoreOnly([store EXCEPT !.selectedItemId = store.items[i].id,
                               !.view = "item-detail"])

handleNewItem ==
  /\ Mounted(store) = "SearchView"
  /\ StoreOnly([store EXCEPT !.editingItemId = NoId, !.view = "add-item"])

OpenSettings ==
  /\ Mounted(store) = "SearchView"
  /\ StoreOnly(setView(store, "settings"))

SearchHandleLock ==
  /\ Mounted(store) = "SearchView"
  /\ StoreOnly(lock(store))

(* ItemDetailView *)

\* rendering with no item selected
ItemDetailNoItem ==
  /\ Mounted(store) = "ItemDetailView"
  /\ ~HasId(store.items, store.selectedItemId)
  /\ StoreOnly(setView(store, "search"))

handleBack ==
  /\ Mounted(store) = "ItemDetailView"
  /\ HasId(store.items, store.selectedItemId)
  /\ StoreOnly([store EXCEPT !.selectedItemId = NoId, !.view = "search"])

\* handleEdit, and the pre-fill effect of the AddItemView it mounts
handleEdit ==
  /\ Mounted(store) = "ItemDetailView"
  /\ HasId(store.items, store.selectedItemId)
  /\ prefill.pc = "idle"
  /\ InFlight < MaxInFlight
  /\ LET item == FindById(store.items, store.selectedItemId)
     IN  /\ store' = [store EXCEPT !.editingItemId = item.id,
                                   !.view = "add-item"]
         /\ prefill' = IF store.encryptionKey = NoKey \/ item.type = "login"
                       THEN IdlePrefill
                       ELSE [pc |-> "decrypting",
                             encryptionKey |-> store.encryptionKey,
                             editingItem |-> item]
  /\ Rerender
  /\ UNCHANGED << localStorage, unlockView, registerView, addItemView,
                  uuids, libVars, sysVars >>

\* the pre-fill's decryptVaultItem settles; its result goes to form fields
PrefillSettled ==
  /\ prefill.pc = "decrypting"
  /\ prefill' = IdlePrefill
  /\ store' = store
  /\ Rerender
  /\ UNCHANGED << localStorage, unlockView, registerView, addItemView,
                  uuids, libVars, sysVars >>

handleDelete ==
  /\ Mounted(store) = "ItemDetailView"
  /\ HasId(store.items, store.selectedItemId)
  /\ IF ~confirmDelete
     THEN /\ store' = store
          /\ localStorage' = localStorage
          /\ Render(unlockError, TRUE, confirmClear)
     ELSE /\ localStorage' = deleteStoredItem(localStorage,
                                              store.selectedItemId)
          /\ store' = [store EXCEPT
                         !.items = FilterOutId(store.items,
                                               store.selectedItemId),
                         !.selectedItemId = NoId,
                         !.view = "search"]
          /\ Rerender
  /\ UNCHANGED << unlockView, registerView, addItemView, prefill, uuids,
                  libVars, sysVars >>

(* AddItemView *)

handleCancel ==
  /\ Mounted(store) = "AddItemView"
  /\ StoreOnly([store EXCEPT
                  !.editingItemId = NoId,
                  !.view = IF store.editingItemId # NoId
                           THEN "item-detail" ELSE "overlay"])

\* handleSave held back until no check runs and no warning shows
HandleSaveAfterCheck ==
  /\ ~breachView.checkingBreach
  /\ breachView.breachWarning = NoWarning
  /\ Mounted(store) = "AddItemView"
  /\ addItemView.pc = "idle"
  /\ InFlight < MaxInFlight
  /\ store.encryptionKey # NoKey
  /\ store.editingItemId = NoId => uuids <= MaxItems
  /\ \E tab \in Tabs, content \in Contents, iv \in IVs :
       /\ addItemView' =
            [pc |-> "encrypting", encryptionKey |-> store.encryptionKey,
             items |-> store.items, editingItemId |-> store.editingItemId,
             id |-> IF store.editingItemId # NoId
                    THEN store.editingItemId ELSE uuids,
             tab |-> tab, fields |-> [content |-> content], iv |-> iv]
  /\ uuids' = IF store.editingItemId # NoId THEN uuids ELSE uuids + 1
  /\ store' = store
  /\ Rerender
  /\ UNCHANGED << localStorage, unlockView, registerView, prefill, libVars, sysVars >>

\* handleSave up to its await; its closure holds the store as of the render
\* before the submit, which is the store at the submit
HandleSave ==
  /\ Mounted(store) = "AddItemView"
  /\ addItemView.pc = "idle"
  /\ InFlight < MaxInFlight
  /\ store.encryptionKey # NoKey
  /\ store.editingItemId = NoId => uuids <= MaxItems
  /\ \E tab \in Tabs, content \in Contents, iv \in IVs :
       /\ store.editingItemId # NoId =>
            tab = IF HasId(store.items, store.editingItemId)
                  THEN FindById(store.items, store.editingItemId).type
                  ELSE "login"
       /\ addItemView' =
            [pc |-> "encrypting",
             encryptionKey |-> store.encryptionKey,
             items |-> store.items,
             editingItemId |-> store.editingItemId,
             id |-> IF store.editingItemId # NoId
                    THEN store.editingItemId ELSE uuids,
             tab |-> tab,
             fields |-> [content |-> content],
             iv |-> iv]
  /\ uuids' = IF store.editingItemId # NoId THEN uuids ELSE uuids + 1
  /\ store' = store
  /\ Rerender
  /\ UNCHANGED << localStorage, unlockView, registerView, prefill, libVars, sysVars >>

\* the item a save builds from its blob
SavedItem(save, blob) ==
  [id |-> save.id, type |-> save.tab, encryptedData |-> blob.ciphertext,
   _decryptedFields |-> save.fields]

\* encryptItem settles; the item is stored and put into the store
SaveSettled ==
  /\ addItemView.pc = "encrypting"
  /\ \E e \in { EncryptUnder(JsonStringify(addItemView.fields),
                              keyInFlight(addItemView.encryptionKey),
                              addItemView.iv) } :
     LET item == SavedItem(addItemView, e.blob)
         isEditing == addItemView.editingItemId # NoId
     IN  IF e.ok
         THEN /\ localStorage' =
                   IF isEditing
                   THEN updateStoredItem(localStorage, StoredOf(item))
                   ELSE saveStoredItem(localStorage, StoredOf(item))
              /\ store' = [store EXCEPT
                             !.items =
                               IF isEditing
                               THEN ReplaceById(addItemView.items, item)
                               ELSE Append(addItemView.items, item),
                             !.editingItemId = NoId,
                             !.view = IF isEditing
                                      THEN "item-detail" ELSE "overlay"]
         ELSE /\ localStorage' = localStorage
              /\ store' = store
  /\ addItemView' = IdleSave
  /\ Rerender
  /\ UNCHANGED << unlockView, registerView, prefill, uuids, libVars, sysVars >>

(* AddItemView: the debounced breach check *)

\* the passwords typed into the login form: none, "pw" and "q"
TypedPasswords == { << >>, << 112, 119 >>, << 113 >> }

MaxChecks == 1

\* an edit of the password field or a switch of tab: the effect's cleanup
\* clears the timer, then the effect runs with the new values
EditPassword ==
  /\ Mounted(store) = "AddItemView"
  /\ \E tab \in Tabs, password \in TypedPasswords :
       /\ << tab, password >> # << breachView.tab, breachView.password >>
       /\ breachView' =
            IF tab # "login" \/ password = << >>
            THEN [breachView EXCEPT !.tab = tab, !.password = password,
                                    !.breachWarning = NoWarning,
                                    !.breachTimer = << >>]
            ELSE [breachView EXCEPT !.tab = tab, !.password = password,
                                    !.breachTimer = << password >>]
  /\ UNCHANGED << localStorage, store, unlockView, registerView, addItemView,
                  prefill, unlockError, confirmDelete, confirmClear, uuids,
                  libVars, sysVars >>

\* the timer fires after 800 ms: the callback up to its await
BreachTimerFires ==
  /\ breachView.breachTimer # << >>
  /\ Len(breachView.checks) < MaxChecks
  /\ breachView' = [breachView EXCEPT
                      !.breachTimer = << >>,
                      !.checkingBreach = TRUE,
                      !.checks = Append(@, breachView.breachTimer[1])]
  /\ UNCHANGED << localStorage, store, unlockView, registerView, addItemView,
                  prefill, unlockError, confirmDelete, confirmClear, uuids,
                  libVars, sysVars >>

\* what the range service may answer to a check of password: nothing, an
\* error status, no record, or the record of the password with a count of 3
Answers(password) ==
  { NetworkFailure, Response(503, << >>), Response(200, << >>),
    Response(200, toUpperCase(Drop(sha1(password), 5)) \o << 58, 51 >>) }

\* the callback from the settling of checkPasswordBreach on
AfterCheck(view, result) ==
  [view EXCEPT
     !.breachWarning = IF result.thrown THEN NoWarning
                       ELSE IF result.breached THEN result.count
                       ELSE NoWarning,
     !.checkingBreach = FALSE]

\* a check in flight settles
BreachCheckSettles ==
  /\ breachView.checks # << >>
  /\ \E i \in DOMAIN breachView.checks :
       \E response \in Answers(breachView.checks[i]) :
         breachView' =
           AfterCheck([breachView EXCEPT
                         !.checks = SubSeq(@, 1, i - 1)
                                      \o SubSeq(@, i + 1, Len(@))],
                      checkResponse(breachView.checks[i], response))
  /\ UNCHANGED << localStorage, store, unlockView, registerView, addItemView,
                  prefill, unlockError, confirmDelete, confirmClear, uuids,
                  libVars, sysVars >>

(* SettingsView *)

SettingsBack ==
  /\ Mounted(store) = "SettingsView"
  /\ StoreOnly(setView(store, "search"))

SettingsHandleLock ==
  /\ Mounted(store) = "SettingsView"
  /\ StoreOnly(lock(store))

handleClearData ==
  /\ Mounted(store) = "SettingsView"
  /\ IF ~confirmClear
     THEN /\ store' = store
          /\ localStorage' = localStorage
          /\ Render(unlockError, confirmDelete, TRUE)
     ELSE /\ localStorage' = clearLocalAccount(localStorage)
          /\ store' = lock(store)
          /\ Rerender
  /\ UNCHANGED << unlockView, registerView, addItemView, prefill, uuids,
                  libVars, sysVars >>

NextApp ==
  \/ VaultLockEvent
  \/ UnlockViewEffect
  \/ UseDifferentAccount
  \/ HandleUnlock
  \/ UnlockDerived
  \/ UnlockVerified
  \/ UnlockDecrypted
  \/ AlreadyHaveAccount
  \/ HandleConfirm
  \/ RegisterDerived
  \/ RegisterSaved
  \/ OverlayAddItem
  \/ ShowSearch
  \/ openItem
  \/ handleNewItem
  \/ OpenSettings
  \/ SearchHandleLock
  \/ ItemDetailNoItem
  \/ handleBack
  \/ handleEdit
  \/ PrefillSettled
  \/ handleDelete
  \/ handleCancel
  \/ HandleSave
  \/ SaveSettled
  \/ SettingsBack
  \/ SettingsHandleLock
  \/ handleClearData

(* The server: routes/auth.ts *)

\* createHash("sha256").update(token).digest("hex"): different for
\* different tokens among those generated below
hashRefreshToken(token) == (token * 37 + 11) % 257

\* randomBytes(48) as the n-th value drawn, each one new
generateRefreshToken(n) == [raw |-> n, hash |-> hashRefreshToken(n)]

MaxTokens == 4

MaxRefreshes == 2

NoSession == [id |-> 0, userId |-> "none", tokenHash |-> 0]

NoReply == [status |-> 0, refreshToken |-> 0]

NoRefresh ==
  [pc |-> "none", refreshToken |-> 0, session |-> NoSession,
   reply |-> NoReply]

AuthInit ==
  /\ users = {}
  /\ sessions = << >>
  /\ issued = 0
  /\ refreshes = [r \in 1..MaxRefreshes |-> NoRefresh]

\* db.insert(sessions) of a newly generated refresh token for the user
InsertSession(userId) ==
  /\ issued' = issued + 1
  /\ sessions' = Append(sessions,
                        [id |-> Len(sessions) + 1, userId |-> userId,
                         tokenHash |-> generateRefreshToken(issued + 1).hash])

\* POST /auth/register with an email not yet registered (409 otherwise)
RegisterRoute(u) ==
  /\ u \notin users
  /\ issued < MaxTokens
  /\ users' = users \cup {u}
  /\ InsertSession(u)
  /\ UNCHANGED << refreshes, argonVars, vaultVars, libVars, appVars >>

\* POST /auth/login with the credentials of a registered user (401 otherwise)
LoginRoute(u) ==
  /\ u \in users
  /\ issued < MaxTokens
  /\ InsertSession(u)
  /\ UNCHANGED << users, refreshes, argonVars, vaultVars, libVars, appVars >>

\* the first row select ... where tokenHash = hash ... limit 1 gives
SessionByHash(hash) ==
  IF \E i \in DOMAIN sessions : sessions[i].tokenHash = hash
  THEN sessions[CHOOSE i \in DOMAIN sessions : sessions[i].tokenHash = hash]
  ELSE NoSession

\* update(sessions).set({ tokenHash: newHash }).where(eq(sessions.id, id))
SetTokenHash(rows, id, newHash) ==
  [i \in DOMAIN rows |->
     IF rows[i].id = id THEN [rows[i] EXCEPT !.tokenHash = newHash]
     ELSE rows[i]]

\* POST /auth/refresh up to the answer of its first query: 401 where no
\* session holds the hash of the token presented
RefreshSelectSession(r) ==
  /\ refreshes[r].pc = "none"
  /\ \E refreshToken \in 0..issued :
       LET session == SessionByHash(hashRefreshToken(refreshToken))
       IN  refreshes' =
             [refreshes EXCEPT
                ![r] = IF session = NoSession
                       THEN [NoRefresh EXCEPT
                               !.pc = "done", !.refreshToken = refreshToken,
                               !.reply = [NoReply EXCEPT !.status = 401]]
                       ELSE [NoRefresh EXCEPT
                               !.pc = "session",
                               !.refreshToken = refreshToken,
                               !.session = session]]
  /\ UNCHANGED << users, sessions, issued, argonVars, vaultVars, libVars,
                  appVars >>

\* the answer of the second query: 401 where the session's user is gone
RefreshSelectUser(r) ==
  /\ refreshes[r].pc = "session"
  /\ refreshes' =
       [refreshes EXCEPT
          ![r] = IF refreshes[r].session.userId \in users
                 THEN [@ EXCEPT !.pc = "user"]
                 ELSE [@ EXCEPT !.pc = "done",
                                !.reply = [NoReply EXCEPT !.status = 401]]]
  /\ UNCHANGED << users, sessions, issued, argonVars, vaultVars, libVars,
                  appVars >>

\* the token is rotated and the new pair of tokens sent
RefreshRotate(r) ==
  /\ refreshes[r].pc = "user"
  /\ issued < MaxTokens
  /\ issued' = issued + 1
  /\ sessions' = SetTokenHash(sessions, refreshes[r].session.id,
                              generateRefreshToken(issued + 1).hash)
  /\ refreshes' =
       [refreshes EXCEPT
          ![r].pc = "done",
          ![r].reply = [status |-> 200,
                        refreshToken |-> generateRefreshToken(issued + 1).raw]]
  /\ UNCHANGED << users, argonVars, vaultVars, libVars, appVars >>

NextAuth ==
  \/ \E u \in Accounts : RegisterRoute(u) \/ LoginRoute(u)
  \/ \E r \in 1..MaxRefreshes :
       \/ RefreshSelectSession(r)
       \/ RefreshSelectUser(r)
       \/ RefreshRotate(r)

(* The server: routes/vault.ts *)

\* deletedAt of an item that is not deleted
NoDate == 0

\* GET /vault/sync without the since parameter
NoSince == -1

MaxTime == 3

MaxWrites == 3

MaxVaultItems == 2

\* the uuids the clients give their items
ItemIds == 1..MaxVaultItems

\* the encrypted blobs the clients send
Blobs == {1, 2}

NoVaultReply ==
  [route |-> "none", userId |-> "none", id |-> 0, status |-> 0,
   items |-> << >>, revision |-> 0]

\* the client of alice: its copy of her items (id to blob) and the time of
\* its last sync
NoClient == [copy |-> << >>, since |-> NoSince]

VaultInit ==
  /\ vaultItems = << >>
  /\ syncRevisions = [u \in Accounts |-> 0]
  /\ now = 1
  /\ reply = NoVaultReply
  /\ client = NoClient

\* time passes
Tick ==
  /\ now < MaxTime
  /\ now' = now + 1
  /\ UNCHANGED << vaultItems, syncRevisions, reply, client, argonVars,
                  authVars, libVars, appVars >>

\* the rows of sync_revisions after bumpRevision(userId)
bumpRevision(revisions, userId) ==
  [revisions EXCEPT ![userId] = @ + 1]

Writes == syncRevisions["alice"] + syncRevisions["bob"]

\* where id = :id alone
MatchesId(row, id, userId) ==
  row.id = id

\* and(eq(vaultItems.id, id), eq(vaultItems.userId, userId))
Matches(row, id, userId) ==
  row.id = id /\ row.userId = userId

\* the rows GET /sync selects
SyncItems(rows, userId, since) ==
  LET selected(row) ==
        /\ row.userId = userId
        /\ row.deletedAt = NoDate
        /\ since # NoSince => row.updatedAt > since
  IN  SelectSeq(rows, selected)

\* requireAuth has accepted the access token of u, a registered user
Authenticated(u) == u \in users

\* GET /vault/sync
GetSync(u, since) ==
  [NoVaultReply EXCEPT !.route = "GET /sync", !.userId = u, !.status = 200,
                       !.items = SyncItems(vaultItems, u, since),
                       !.revision = syncRevisions[u]]

GetSyncRoute(u) ==
  /\ Authenticated(u)
  /\ \E since \in {NoSince} \cup 0..MaxTime : reply' = GetSync(u, since)
  /\ UNCHANGED << vaultItems, syncRevisions, now, client, argonVars,
                  authVars, libVars, appVars >>

\* POST /vault/items: the insert fails on an id already there (500)
PostItemRoute(u) ==
  /\ Authenticated(u)
  /\ Writes < MaxWrites
  /\ \E id \in ItemIds, encryptedData \in Blobs :
       IF \E i \in DOMAIN vaultItems : vaultItems[i].id = id
       THEN /\ reply' = [NoVaultReply EXCEPT
                           !.route = "POST /items", !.userId = u,
                           !.id = id, !.status = 500]
            /\ UNCHANGED << vaultItems, syncRevisions >>
       ELSE /\ vaultItems' =
                 Append(vaultItems,
                        [id |-> id, userId |-> u,
                         encryptedData |-> encryptedData,
                         deletedAt |-> NoDate, createdAt |-> now,
                         updatedAt |-> now])
            /\ syncRevisions' = bumpRevision(syncRevisions, u)
            /\ reply' = [NoVaultReply EXCEPT
                           !.route = "POST /items", !.userId = u,
                           !.id = id, !.status = 201]
  /\ UNCHANGED << now, client, argonVars, authVars, libVars, appVars >>

\* PUT /vault/items/:id
PutItemRoute(u) ==
  /\ Authenticated(u)
  /\ Writes < MaxWrites
  /\ \E id \in ItemIds, encryptedData \in Blobs :
       IF \E i \in DOMAIN vaultItems : Matches(vaultItems[i], id, u)
       THEN /\ vaultItems' =
                 [i \in DOMAIN vaultItems |->
                    IF Matches(vaultItems[i], id, u)
                    THEN [vaultItems[i] EXCEPT
                            !.encryptedData = encryptedData,
                            !.updatedAt = now]
                    ELSE vaultItems[i]]
            /\ syncRevisions' = bumpRevision(syncRevisions, u)
            /\ reply' = [NoVaultReply EXCEPT
                           !.route = "PUT /items/:id", !.userId = u,
                           !.id = id, !.status = 200]
       ELSE /\ reply' = [NoVaultReply EXCEPT
                           !.route = "PUT /items/:id", !.userId = u,
                           !.id = id, !.status = 404]
            /\ UNCHANGED << vaultItems, syncRevisions >>
  /\ UNCHANGED << now, client, argonVars, authVars, libVars, appVars >>

\* DELETE /vault/items/:id
DeleteItemRoute(u) ==
  /\ Authenticated(u)
  /\ Writes < MaxWrites
  /\ \E id \in ItemIds :
       IF \E i \in DOMAIN vaultItems : Matches(vaultItems[i], id, u)
       THEN /\ vaultItems' =
                 [i \in DOMAIN vaultItems |->
                    IF Matches(vaultItems[i], id, u)
                    THEN [vaultItems[i] EXCEPT
                            !.deletedAt = now, !.updatedAt = now]
                    ELSE vaultItems[i]]
            /\ syncRevisions' = bumpRevision(syncRevisions, u)
            /\ reply' = [NoVaultReply EXCEPT
                           !.route = "DELETE /items/:id", !.userId = u,
                           !.id = id, !.status = 200]
       ELSE /\ reply' = [NoVaultReply EXCEPT
                           !.route = "DELETE /items/:id", !.userId = u,
                           !.id = id, !.status = 404]
            /\ UNCHANGED << vaultItems, syncRevisions >>
  /\ UNCHANGED << now, client, argonVars, authVars, libVars, appVars >>

RECURSIVE ApplySync(_, _)
\* the copy after the items of a sync response are put into it
ApplySync(copy, items) ==
  IF items = << >> THEN copy
  ELSE ApplySync([id \in DOMAIN copy \cup {Head(items).id} |->
                    IF id = Head(items).id THEN Head(items).encryptedData
                    ELSE copy[id]],
                 Tail(items))

\* the client of alice asks for the delta since its last sync and applies
\* it; it asks from one tick before that sync on, so that nothing written in
\* the same tick is missed
ClientSync ==
  /\ Authenticated("alice")
  /\ reply' = GetSync("alice", client.since)
  /\ client' = [copy |-> ApplySync(client.copy, reply'.items),
                since |-> now - 1]
  /\ UNCHANGED << vaultItems, syncRevisions, now, argonVars, authVars,
                  libVars, appVars >>

NextVault ==
  \/ \E u \in Accounts : RegisterRoute(u)
  \/ Tick
  \/ \E u \in Accounts :
       \/ GetSyncRoute(u)
       \/ PostItemRoute(u)
       \/ PutItemRoute(u)
       \/ DeleteItemRoute(u)
  \/ ClientSync

\* the window is reloaded or the application started again: the store and
\* the components are created anew, calls in flight are gone, localStorage
\* is what the last run left
Reload ==
  /\ store' = InitialStore
  /\ unlockView' = IdleUnlock
  /\ registerView' = IdleRegister
  /\ addItemView' = IdleSave
  /\ prefill' = IdlePrefill
  /\ unlockError' = FALSE
  /\ confirmDelete' = FALSE
  /\ confirmClear' = FALSE
  /\ breachView' = IdleBreach
  /\ UNCHANGED << localStorage, uuids, libVars, sysVars >>

NextReload == NextApp \/ Reload

-----------------------------------------------------------------------------
(* Specifications *)

UtilInit == KdfInit /\ BreachInit /\ GenInit

SysInit == ArgonInit /\ AuthInit /\ VaultInit

Init == CipherInit /\ ShareInit /\ UtilInit /\ AppInit /\ SysInit

SpecCipher == Init /\ [][NextCipher]_vars

SpecCalls == Init /\ [][NextCalls]_vars

SpecShare == Init /\ [][NextShare]_vars

SpecServer == Init /\ [][NextServer]_vars

SpecKdf == Init /\ [][NextKdf]_vars

SpecBreach == Init /\ [][NextBreach]_vars

SpecGen == Init /\ [][NextGen]_vars

SpecReload == Init /\ [][NextReload]_vars

SpecArgon == Init /\ [][NextArgon]_vars

SpecAuth == Init /\ [][NextAuth]_vars

SpecVault == Init /\ [][NextVault]_vars

SpecApp == Init /\ [][NextApp]_vars

\* the app with the breach check of AddItemView
NextAddItem ==
  \/ NextApp
  \/ EditPassword
  \/ BreachTimerFires
  \/ BreachCheckSettles

SpecAddItem == Init /\ [][NextAddItem]_vars

-----------------------------------------------------------------------------
(* Claims about the cipher (SpecCipher, SpecCalls) *)

OpEnc == encs[op.idx]

OwnKey == op.key = OpEnc.key

\* whether the whole blob verifies under key: it decodes, carries the
\* supported version, and its tag is the tag of its iv and ciphertext
Verified(text, key) ==
  LET d == fromBase64Url(text)
      b == d.bytes
  IN  /\ d.ok
      /\ Len(b) >= 2 + IV_LENGTH + TagBytes
      /\ b[1] * 256 + b[2] = VERSION
      /\ Drop(b, Len(b) - TagBytes)
           = GcmTag(key, Take(Drop(b, 2), IV_LENGTH),
                    Take(Drop(b, 2 + IV_LENGTH),
                         Len(b) - 2 - IV_LENGTH - TagBytes))

\* C1 as stated: for every plaintext P and key K,
\* decryptItem(encryptItem(P, K), K) returns exactly P.
RoundTripEveryString ==
  (op.kind = "decrypt" /\ OwnKey)
    => (op.res.ok /\ op.res.plaintext = OpEnc.plaintext)

\* C1 amended: for every key K and every plaintext P that is a well-formed
\* string (no unpaired surrogate) not starting with U+FEFF,
\* decryptItem(encryptItem(P, K), K) returns exactly P.
RoundTrip ==
  (op.kind = "decrypt" /\ OwnKey
     /\ WellFormed(OpEnc.plaintext) /\ ~LeadingBOM(OpEnc.plaintext))
    => (op.res.ok /\ op.res.plaintext = OpEnc.plaintext)

RoundTripWitness ==
  /\ op.kind = "decrypt" /\ OwnKey
  /\ OpEnc.plaintext = <<55357, 56832>>
  /\ op.res.ok /\ op.res.plaintext = <<55357, 56832>>

\* C2 as stated: flipping any single bit of the decoded blob (version bytes,
\* IV, ciphertext or tag) makes decryptItem under the same key fail with
\* AuthenticationError.
FlipAnyBitAuthenticationError ==
  op.kind = "flip" => (~op.res.ok /\ op.res.error = "AuthenticationError")

\* C2 amended: flipping any single bit of the decoded blob makes decryptItem
\* under the same key fail and return no plaintext; the failure is
\* AuthenticationError when the bit lies in the IV, the ciphertext or the
\* tag, and VersionError when it lies in the two version bytes.
FlipBitRejected ==
  op.kind = "flip" =>
    /\ ~op.res.ok
    /\ op.res.plaintext = NoPlaintext
    /\ op.res.error =
         IF op.arg < 16 THEN "VersionError" ELSE "AuthenticationError"

\* the last byte of the decoded blob corrupted
FlipBitWitness ==
  /\ op.kind = "flip"
  /\ op.arg \div 8 + 1 = Len(Packed(OpEnc))
  /\ OpEnc.plaintext = <<104, 105>>
  /\ op.res.error = "AuthenticationError"

\* C3: a blob whose version field is not VERSION fails with VersionError,
\* crypto.subtle.decrypt is never invoked for it, and no plaintext comes
\* back, also when iv and ciphertext are well-formed for the key.
VersionRejectedFirst ==
  LET d == fromBase64Url(op.input)
  IN  (op.kind # "none" /\ d.ok /\ Len(d.bytes) >= 2
         /\ d.bytes[1] * 256 + d.bytes[2] # VERSION)
        => /\ ~op.res.ok
           /\ op.res.error = "VersionError"
           /\ ~op.res.aead
           /\ op.res.plaintext = NoPlaintext

VersionRejectedWitness ==
  /\ op.kind = "version" /\ OwnKey /\ op.arg = 2
  /\ Verified(toBase64Url(Uint16BE(VERSION) \o Drop(fromBase64Url(op.input).bytes, 2)),
              op.key)
  /\ op.res.error = "VersionError"

\* C5: decryptItem returns a plaintext only when the whole blob verified
\* under the key; whenever it fails (unsupported version, wrong key,
\* tampered or truncated blob) it returns no plaintext at all.
AllOrNothing ==
  op.kind # "none" =>
    /\ op.res.ok <=> Verified(op.input, op.key)
    /\ ~op.res.ok => op.res.plaintext = NoPlaintext
    /\ op.res.plaintext # NoPlaintext => op.res.ok

\* a wrong key: AuthenticationError, nothing returned
AllOrNothingWitness ==
  /\ op.kind = "decrypt" /\ ~OwnKey
  /\ OpEnc.plaintext = <<104, 105>>
  /\ ~op.res.ok /\ op.res.error = "AuthenticationError"
  /\ op.res.plaintext = NoPlaintext

-----------------------------------------------------------------------------
(* Claims about sharing (SpecShare) *)

ByRecipient ==
  /\ sop.kind = "decryptShared"
  /\ sop.a = shared.recipient /\ sop.b = shared.sender

\* C9 as stated: for any two keypairs A and B and any plaintext P,
\* decryptSharedItem(encryptItemForRecipient(P, A.private, B.public),
\* B.private, A.public) returns exactly P.
SharingRoundTripEveryString ==
  ByRecipient => (sop.res.ok /\ sop.res.plaintext = shared.plaintext)

\* C9 amended: the same for every plaintext P that is a well-formed string
\* (no unpaired surrogate) not starting with U+FEFF.
SharingRoundTrip ==
  (ByRecipient /\ WellFormed(shared.plaintext) /\ ~LeadingBOM(shared.plaintext))
    => (sop.res.ok /\ sop.res.plaintext = shared.plaintext)

SharingRoundTripWitness ==
  /\ ByRecipient
  /\ pairs[shared.sender].privateKey # pairs[shared.recipient].privateKey
  /\ shared.plaintext = <<104, 105>>
  /\ sop.res.ok /\ sop.res.plaintext = <<104, 105>>

\* C10: for any two keypairs A and B, deriveSharedKey(A.private, B.public)
\* and deriveSharedKey(B.private, A.public) are the same key.
EcdhSymmetry ==
  sop.kind = "derive" => sop.keyAB = sop.keyBA

EcdhSymmetryWitness ==
  /\ sop.kind = "derive"
  /\ pairs[sop.a].privateKey # pairs[sop.b].privateKey
  /\ sop.keyAB = sop.keyBA
  /\ sop.keyAB \notin {pairs[sop.a].publicKey, pairs[sop.b].publicKey}

\* a user other than sender and recipient decrypts the shared item with the
\* own private key and the sender's public key
ByThirdUser ==
  /\ sop.kind = "decryptShared"
  /\ sop.b = shared.sender
  /\ sop.a \notin {shared.sender, shared.recipient}

Rejected(res) ==
  /\ ~res.ok
  /\ res.error = "AuthenticationError"
  /\ res.plaintext = NoPlaintext

UrlSafe(c) ==
  \/ c \in 65..90
  \/ c \in 97..122
  \/ c \in 48..57
  \/ c \in {45, 95}

\* the text of e is unpadded URL-safe base64 that decodes to version, IV,
\* ciphertext and tag of e's plaintext under e's key
WireFormatOf(e) ==
  \A d \in { fromBase64Url(e.blob.ciphertext) } :
    LET n == Len(TextEncode(e.plaintext))
        body == Drop(d.bytes, 2 + IV_LENGTH)
    IN  /\ \A i \in DOMAIN e.blob.ciphertext : UrlSafe(e.blob.ciphertext[i])
        /\ d.ok
        /\ Len(d.bytes) = 2 + IV_LENGTH + n + 16
        /\ Take(d.bytes, 2) = << 0, 1 >>
        /\ Take(Drop(d.bytes, 2), IV_LENGTH) = e.iv
        /\ body = AesGcmEncrypt(e.key, e.iv, TextEncode(e.plaintext))
        /\ Drop(body, n) = GcmTag(e.key, e.iv, Take(body, n))
        /\ e.blob.ciphertext = toBase64Url(d.bytes)

\* C15: for every plaintext and key, the ciphertext string returned by
\* encryptItem is unpadded URL-safe base64 (no '+', '/' or '=') of a buffer
\* made of the 2-byte big-endian version 1, then the 12-byte IV, then
\* ciphertext followed by the 16-byte tag, and fromBase64Url recovers
\* exactly that buffer.
WireFormat ==
  \A i \in DOMAIN encs : WireFormatOf(encs[i])

WireFormatWitness ==
  /\ Len(encs) = 1
  /\ encs[1].plaintext = <<104, 105>>
  /\ Len(encs[1].blob.ciphertext) = 43
  /\ SumSeq(encs[1].iv) # 0
  /\ WireFormat

-----------------------------------------------------------------------------
(* Claims about the server's view (SpecServer) *)

\* everything an observer of the server holds: the registered public keys,
\* the wrapped private keys and the ciphertext shared
View ==
  ({ server[u].publicKey : u \in Users }
     \cup { server[u].encryptedPrivateKey : u \in Users }
     \cup { shared.ciphertext }) \ { <<>> }

\* the public keys the observer imports
ObserverPublicKeys ==
  { r.key : r \in { x \in { importPublicKey([key |-> t]) : t \in View } :
                     x.ok } }

\* the private keys that can be read from a set of texts as they are
ReadPrivateKeys(texts) ==
  { r.key :
      r \in { x \in { ImportKey(Pkcs8Prefix, b.bytes) :
                        b \in { y \in { fromBase64Url(t) : t \in texts } :
                                 y.ok } } :
               x.ok } }

\* the shared keys the observer derives from private keys it has read
ObserverKeys(texts) ==
  { deriveSharedKey(d, y) : d \in ReadPrivateKeys(texts) \ {0},
                            y \in ObserverPublicKeys }

\* what the observer decrypts with the keys it derives
Opened(texts) ==
  { r.plaintext :
      r \in { x \in { decryptItem([ciphertext |-> c, version |-> 1], k) :
                        c \in View, k \in ObserverKeys(texts) } :
               x.ok } }

ObserverRounds == 2

RECURSIVE ObserverTexts(_)
\* the texts the observer holds after n rounds of reading keys and decrypting
ObserverTexts(n) ==
  IF n = 0 THEN View
  ELSE UNION { texts \cup Opened(texts) : texts \in { ObserverTexts(n - 1) } }

Observed == ObserverTexts(ObserverRounds)

SharedKeys ==
  { deriveSharedKey(pairs[a].privateKey, pairs[b].publicKey) :
      a \in { u \in Users : pairs[u] # NoPair },
      b \in { u \in Users : pairs[u] # NoPair } }

\* C12: after any sequence of key generation, public-key export,
\* private-key wrapping and item sharing, an observer that holds only the
\* exported public keys, the wrapped private keys and the ciphertexts
\* derives neither any shared key, nor any private key, nor any plaintext:
\* reading every text it holds as a key, deriving with every key read and
\* decrypting with every key derived yields none of them.
ServerViewConfidential ==
  \A texts \in { Observed } :
    /\ ReadPrivateKeys(texts) = {}
    /\ ObserverKeys(texts) \cap SharedKeys = {}
    /\ shared # NoShare => shared.plaintext \notin texts

ServerViewWitness ==
  /\ \A u \in Accounts :
       /\ server[u].encryptedPrivateKey # <<>>
       /\ pairs[u].publicKey \in ObserverPublicKeys
  /\ pairs["alice"] # pairs["bob"]
  /\ shared # NoShare
  /\ Cardinality(View) = 5
  /\ ServerViewConfidential

\* the registered private key of sop.a was wrapped under encryptionKey
WrappedUnder(encryptionKey) ==
  \E iv \in IVs :
    server[sop.a].encryptedPrivateKey =
      encryptPrivateKey(pairs[sop.a].privateKey, encryptionKey, iv)

\* C13: decryptPrivateKey is the inverse of encryptPrivateKey under the
\* same encryption key (decryptPrivateKey(encryptPrivateKey(sk, K), K)
\* yields sk), and for any other key K' it fails with AuthenticationError
\* instead of returning a key.
PrivateKeyWrapping ==
  sop.kind = "unwrap" =>
    IF WrappedUnder(sop.keyAB)
    THEN sop.unwrapped.ok /\ sop.unwrapped.key = pairs[sop.a].privateKey
    ELSE /\ ~sop.unwrapped.ok
         /\ sop.unwrapped.error = "AuthenticationError"
         /\ sop.unwrapped.key = 0

PrivateKeyWrappingWitness ==
  /\ sop.kind = "unwrap"
  /\ ~WrappedUnder(sop.keyAB)
  /\ sop.unwrapped.error = "AuthenticationError"
  /\ \E K \in Keys \ {sop.keyAB} :
       /\ WrappedUnder(K)
       /\ decryptPrivateKey(server[sop.a].encryptedPrivateKey, K).key
            = pairs[sop.a].privateKey

-----------------------------------------------------------------------------
(* Claims about key derivation (SpecKdf) *)

-----------------------------------------------------------------------------
(* Claims about the breach check (SpecBreach) *)

\* C16: for every password, of any length, the only password-derived data
\* checkPasswordBreach sends to the range service is exactly the first 5
\* hex characters of the password's hash; the remaining 35 hex characters,
\* the full hash and the password are never part of any request: one
\* request is made, to the range address followed by those 5 characters,
\* with a header that does not depend on the password.
KAnonymity ==
  breachOp.pc # "none" =>
    /\ Len(breachOp.requests) = 1
    /\ \A request \in { breachOp.requests[1] } :
         \A hash \in { sha1(breachOp.password) } :
           /\ Take(request.url, Len(HIBP_API)) = HIBP_API
           /\ Len(request.url) = Len(HIBP_API) + 5
           /\ Drop(request.url, Len(HIBP_API)) = toUpperCase(Take(hash, 5))
           /\ request.headers = { << "Add-Padding", "true" >> }

KAnonymityWitness ==
  /\ breachOp.pc = "settled"
  /\ Len(breachOp.password) = 14
  /\ Len(sha1(breachOp.password)) = 40
  /\ Len(breachOp.requests[1].url) = Len(HIBP_API) + 5
  /\ KAnonymity

\* the records of the response whose suffix is the remaining 35 hex
\* characters of the password's hash
OwnRecords ==
  { i \in DOMAIN breachOp.records :
      breachOp.records[i].suffix
        = toUpperCase(Drop(sha1(breachOp.password), 5)) }

\* the result is the one decided by exact match among the records
LocalExactMatch ==
  /\ ~breachOp.result.thrown
  /\ \A i \in OwnRecords :
       \A count \in { parseInt(breachOp.records[i].count) } :
         count > 0 => (breachOp.result.breached /\ breachOp.result.count = count)
  /\ OwnRecords = {} => breachOp.result = NoResult

FailedCheckThrows ==
  (breachOp.pc = "settled" /\ ~breachOp.response.ok) =>
    breachOp.result = Thrown("NetworkError")

-----------------------------------------------------------------------------
(* Claims about the password generator (SpecGen) *)

\* the characters of the classes the options ask for, without the excluded
Pool(options) ==
  LET Of(class) ==
        IF class = "uppercase" THEN 65..90
        ELSE IF class = "lowercase" THEN 97..122
        ELSE IF class = "digits" THEN 48..57
        ELSE { 33, 64, 35, 36, 37, 94, 38, 42, 40, 41, 95, 43, 45, 61, 91, 93,
               123, 125, 124, 59, 58, 44, 46, 60, 62, 63 }
      On(class) ==
        class \notin DOMAIN options.classes \/ options.classes[class]
  IN  UNION { IF On(class) THEN Of(class) ELSE {} :
                class \in {"uppercase", "lowercase", "digits", "symbols"} }
        \ { options.exclude[i] : i \in DOMAIN options.exclude }

\* C20: generatePassword(options) returns a string of exactly the requested
\* length in which every character belongs to the pool built from the
\* requested classes (uppercase, lowercase, digits, symbols) minus the
\* excluded characters; no character of a class that was not requested and
\* no excluded character ever appears.
PasswordFromPool ==
  genOp.pc = "returned" =>
    /\ Len(genOp.password) = genOp.options.length
    /\ \A i \in DOMAIN genOp.password :
         genOp.password[i] \in Pool(genOp.options)

PasswordFromPoolWitness ==
  /\ genOp.pc = "returned"
  /\ genOp.options.length = 2
  /\ genOp.options.exclude = << 48, 79, 49, 108, 73 >>
  /\ DOMAIN genOp.options.classes = {"lowercase", "symbols"}
  /\ ~genOp.options.classes["lowercase"]
  /\ genOp.options.classes["symbols"]
  /\ genOp.password = << 75, 55 >>

\* C21: generatePassword fails with ConfigError, and returns no string,
\* whenever the resulting pool is empty (no class requested, or every
\* character of the requested classes is excluded).
EmptyPoolThrows ==
  (genOp.pc # "none" /\ Pool(genOp.options) = {}) =>
    (genOp.pc = "thrown" /\ genOp.password = << >>)

\* only digits are requested and every digit is excluded
EmptyPoolThrowsWitness ==
  /\ genOp.pc = "thrown"
  /\ genOp.options.length = 2
  /\ genOp.options.exclude = << 48, 49, 50, 51, 52, 53, 54, 55, 56, 57 >>
  /\ genOp.options.classes =
       [c \in {"uppercase", "lowercase", "digits", "symbols"} |->
          c = "digits"]

\* the random bytes that put the character at position p of the pool
BytesFor(charset, p) ==
  { byte \in 0..255 : Sample(<< >>, charset, byte) = << charset[p] >> }

\* C22: rejection sampling is unbiased: for every pool size n that
\* generatePassword can build, a random byte is used only if it is below the
\* largest multiple of n that is at most 256, every other byte is discarded
\* and redrawn, and the same number of accepted byte values maps to each of
\* the n pool positions.
UnbiasedOver(password, charset) ==
  LET n == Len(charset)
      largest == CHOOSE m \in 0..256 : m % n = 0 /\ m + n > 256
  IN  /\ \A byte \in 0..255 :
           Sample(password, charset, byte) =
             IF byte < largest
             THEN Append(password, charset[(byte % n) + 1])
             ELSE password
      /\ password = << >> =>
           \A p \in 1..n :
             Cardinality(BytesFor(charset, p)) = largest \div n

\* the pool of the call, and, in the call with the default classes, every
\* pool that excluding its last characters leaves
RejectionSamplingUnbiased ==
  /\ genOp.pc \in {"sampling", "returned"} /\ genOp.charset # << >> =>
       UnbiasedOver(genOp.password, genOp.charset)
  /\ ( /\ genOp.pc = "sampling"
       /\ genOp.options = [classes |-> << >>, length |-> 1,
                            exclude |-> << >>] ) =>
       \A n \in 1..Len(genOp.charset) :
         UnbiasedOver(<< >>, SubSeq(genOp.charset, 1, n))

\* the full pool of 88 characters: the bytes from 176 on are discarded
RejectionSamplingWitness ==
  /\ genOp.pc = "returned"
  /\ Len(genOp.charset) = 88
  /\ genOp.password = << 65, 63 >>
  /\ Sample(<< 65 >>, genOp.charset, 200) = << 65 >>

-----------------------------------------------------------------------------
(* Claims about the errors of the unlock flow (SpecReload) *)

\* the error the step of handleUnlock now due ends with, "none" where it
\* goes on: the Error of the missing vault check, the Error of the
\* mismatch, or what decryptItem throws
UnlockFailure ==
  IF unlockView.pc = "deriving"
  THEN IF localStorage.vaultCheck = NoText THEN "NoVaultCheck" ELSE "none"
  ELSE IF unlockView.pc = "verifying"
  THEN LET r == decryptItem([ciphertext |-> unlockView.checkCiphertext,
                             version |-> 1], unlockView.encryptionKey)
       IN  IF ~r.ok THEN r.error
           ELSE IF r.plaintext # VAULT_CHECK_PLAINTEXT THEN "Mismatch"
           ELSE "none"
  ELSE IF unlockView.pc = "decrypting"
  THEN LET errors ==
             { decryptItem([ciphertext |->
                              unlockView.storedItems[i].encryptedData,
                            version |-> 1], unlockView.encryptionKey).error :
                 i \in DOMAIN unlockView.storedItems } \ {"none"}
       IN  IF errors = {} THEN "none" ELSE CHOOSE e \in errors : TRUE
  ELSE "none"

\* C23: cryptographic verification failures are surfaced distinctly and
\* never masked: a decryption that fails because of a wrong key or tampering
\* reaches the caller as an error distinguishable from format errors
\* (unsupported version, malformed blob, missing vault check) and from
\* network errors, so that the unlock flow reports 'wrong master password'
\* only for an authentication failure.
WrongPasswordOnlyForAuthentication ==
  [][ (~unlockError /\ unlockError') =>
        UnlockFailure = "AuthenticationError" ]_vars

-----------------------------------------------------------------------------
(* Claims about the Argon2 runtime loader (SpecArgon) *)

\* C27: the Argon2 hashing backend is resolved once and cached: across any
\* interleaving of deriveMasterKey calls in one process, including calls
\* that overlap before the first load has finished, loadArgon2 runs at most
\* once and every later call reuses the cached instance.
LoadArgon2AtMostOnce ==
  loads <= 1

-----------------------------------------------------------------------------
(* Claims about the server's refresh tokens (SpecAuth) *)

\* the requests that presented the token and were answered 200 with tokens
Redeemed(refreshToken) ==
  { r \in DOMAIN refreshes :
      /\ refreshes[r].pc = "done"
      /\ refreshes[r].refreshToken = refreshToken
      /\ refreshes[r].reply.status = 200 }

\* C24: refresh tokens are rotated on use: across any interleaving of POST
\* /auth/refresh requests, a given refresh token is redeemed successfully at
\* most once; after one request presenting token T has succeeded, every
\* other request presenting T gets 401 and no tokens.
RedeemedAtMostOnce ==
  \A refreshToken \in 1..issued :
    Cardinality(Redeemed(refreshToken)) <= 1

-----------------------------------------------------------------------------
(* Claims about clearing the local data (SpecApp) *)

\* C25: clear local data removes all vault data from the device: after
\* handleClearData has been confirmed (second tap), local storage holds no
\* account data and no stored vault items, i.e. getLocalAccount() returns
\* null and loadStoredItems() returns an empty list, and the store is locked.
ClearRemovesAllVaultData ==
  [][ (confirmClear /\ handleClearData) =>
        /\ getLocalAccount(localStorage') = NoAccount
        /\ loadStoredItems(localStorage') = << >>
        /\ ~store'.isUnlocked ]_vars

\* C28: after any sequence of register, add item, edit item, delete item,
\* lock and clear-local-data operations, an unlock attempt with the master
\* password of the currently registered local account succeeds (store.unlock
\* is called and the store becomes unlocked with the stored items
\* decrypted): once verifyLocalPassword has accepted the key derived from
\* the password typed, handleUnlock ends with the store unlocked.
UnlockWithAccountPasswordSucceeds ==
  [][ (unlockView.pc = "decrypting" /\ UnlockDecrypted) =>
        /\ store'.isUnlocked
        /\ store'.encryptionKey = unlockView.encryptionKey
        /\ Len(store'.items) = Len(unlockView.storedItems) ]_vars

-----------------------------------------------------------------------------
(* Claims about the server's vault routes (SpecVault) *)

\* the live items of a user, id to blob
LiveItems(userId) ==
  LET live == { i \in DOMAIN vaultItems :
                  /\ vaultItems[i].userId = userId
                  /\ vaultItems[i].deletedAt = NoDate }
  IN  [id \in { vaultItems[i].id : i \in live } |->
         vaultItems[CHOOSE i \in live : vaultItems[i].id = id].encryptedData]

\* C26: GET /vault/sync?since=t returns the delta since t: every item of
\* the authenticated user that was created, updated or deleted after t is
\* reflected in the response, so that a client which applies successive sync
\* responses to its local copy ends with exactly the server's set of live
\* (non-deleted) items.
SyncReturnsDelta ==
  [][ (reply'.route = "GET /sync" /\ client' # client) =>
        client'.copy = LiveItems("alice") ]_vars

\* a PUT or DELETE that names an item of another user
ForeignWrite ==
  /\ reply.route \in {"PUT /items/:id", "DELETE /items/:id"}
  /\ \E i \in DOMAIN vaultItems :
       vaultItems[i].id = reply.id /\ vaultItems[i].userId # reply.userId

\* a row changes only in a request of its owner that is answered 200
OwnWritesOnly ==
  \A i \in DOMAIN vaultItems :
    vaultItems'[i] # vaultItems[i] =>
      /\ reply'.userId = vaultItems[i].userId
      /\ reply'.status = 200
      /\ vaultItems'[i].userId = vaultItems[i].userId

\* C30: vault items are isolated per user on the server: for any sequence
\* of authenticated requests, PUT and DELETE /vault/items/:id change an item
\* only when it belongs to the authenticated user (otherwise they answer 404
\* and leave the item unchanged), and GET /vault/sync never returns an item
\* owned by another user nor a soft-deleted item.
VaultItemsIsolated ==
  /\ [](ForeignWrite => reply.status = 404)
  /\ [](\A i \in DOMAIN reply.items :
          /\ reply.items[i].userId = reply.userId
          /\ reply.items[i].deletedAt = NoDate)
  /\ [][OwnWritesOnly]_vars

\* bob has asked to change the item of alice
VaultItemsIsolatedWitness ==
  /\ reply.route = "PUT /items/:id"
  /\ reply.userId = "bob"
  /\ reply.status = 404
  /\ \E i \in DOMAIN vaultItems :
       /\ vaultItems[i].id = reply.id
       /\ vaultItems[i].userId = "alice"
       /\ vaultItems[i].deletedAt = NoDate

-----------------------------------------------------------------------------
(* Claims about the breach check of AddItemView (SpecAddItem) *)

\* C18 as stated: a breach check that fails or is cancelled resolves to
\* 'unknown', never to 'not breached': the caller's state after a failed
\* check is distinguishable from the state after a check that found the
\* password clean.  Whenever a check is in flight, what the callback leaves
\* when the check throws differs from what it leaves when no record
\* matches.
FailedCheckDistinguishable ==
  breachView.checks # << >> =>
    AfterCheck(breachView, Thrown("NetworkError"))
      # AfterCheck(breachView, NoResult)

\* a submit of the form is possible
CanSubmit ==
  /\ Mounted(store) = "AddItemView"
  /\ addItemView.pc = "idle"
  /\ store.encryptionKey # NoKey
  /\ InFlight < MaxInFlight
  /\ store.editingItemId = NoId => uuids <= MaxItems

\* a save that settles leaves the form idle, the new item stored
SaveCompletes ==
  (addItemView.pc = "encrypting" /\ addItemView' # addItemView) =>
    /\ addItemView' = IdleSave
    /\ addItemView.editingItemId = NoId =>
         /\ HasId(localStorage'.items, addItemView.id)
         /\ HasId(store'.items, addItemView.id)

\* C19: in AddItemView, handleSave can be started and runs to completion
\* whatever the state of the breach check (not started, debouncing, in
\* flight, failed, or reported breached): a submit starts it in every such
\* state, and the step that settles it stores the item.
SaveNeverBlocked ==
  /\ [](CanSubmit => ENABLED HandleSave)
  /\ [][SaveCompletes]_vars

SaveNeverBlockedWitness ==
  /\ addItemView.pc = "encrypting"
  /\ breachView.checkingBreach
  /\ breachView.checks # << >>
  /\ breachView.breachWarning # NoWarning

\* the checks in flight without the i-th
WithoutCheck(checks, i) ==
  SubSeq(checks, 1, i - 1) \o SubSeq(checks, i + 1, Len(checks))

\* C29: in AddItemView a displayed breach warning always belongs to the
\* password currently in the field: the result of a checkPasswordBreach call
\* that was started for an earlier password value and arrives after the
\* password has changed never sets the warning (or the checking indicator)
\* for the new value.
StaleResultIgnored ==
  [][ \A i \in DOMAIN breachView.checks :
        ( /\ Mounted(store') = "AddItemView"
          /\ breachView'.checks = WithoutCheck(breachView.checks, i)
          /\ breachView.checks[i] # breachView.password ) =>
            /\ breachView'.breachWarning = breachView.breachWarning
            /\ breachView'.checkingBreach = breachView.checkingBreach ]_vars

-----------------------------------------------------------------------------
(* Claims about the desktop app (SpecApp) *)

\* C6 as stated: once lock() has completed and until the next unlock, that
\* is whenever isUnlocked is false, the store holds no key (encryptionKey
\* is null) and no decrypted items (items is empty), also when a save was
\* in flight at the moment of the lock and completes afterwards.
LockDiscardsScope ==
  ~store.isUnlocked => (store.encryptionKey = NoKey /\ store.items = << >>)

\* what a save in flight gets from encryptItem
SaveBlob ==
  EncryptUnder(JsonStringify(addItemView.fields),
               keyInFlight(addItemView.encryptionKey), addItemView.iv)

\* every call in flight, whatever the store has become meanwhile, works
\* with a key and settles without failing: a save's encryptItem returns a
\* blob that decrypts under the captured key to the fields typed in, a
\* pre-fill's decryptVaultItem returns the fields of an item encrypted
\* under the captured key
InFlightCallsComplete ==
  /\ addItemView.pc = "encrypting" =>
       /\ addItemView.encryptionKey # NoKey
       /\ \A e \in { SaveBlob } :
            /\ e.ok
            /\ \A r \in { decryptVaultItem(
                              [SavedItem(addItemView, e.blob) EXCEPT
                                 !._decryptedFields = NoFields],
                              addItemView.encryptionKey) } :
                 r.ok /\ r.item._decryptedFields = addItemView.fields
  /\ prefill.pc = "decrypting" =>
       /\ prefill.encryptionKey # NoKey
       /\ Verified(prefill.editingItem.encryptedData, prefill.encryptionKey)
            => decryptVaultItem(prefill.editingItem,
                                keyInFlight(prefill.encryptionKey)).ok

\* a step that starts encryptItem or decryptVaultItem is taken with the
\* store unlocked and its key set, and hands that key to the call
StartsWithStoreKey ==
  /\ (addItemView.pc = "idle" /\ addItemView'.pc = "encrypting") =>
       /\ store.isUnlocked /\ store.encryptionKey # NoKey
       /\ addItemView'.encryptionKey = store.encryptionKey
  /\ (prefill.pc = "idle" /\ prefill'.pc = "decrypting") =>
       /\ store.isUnlocked /\ store.encryptionKey # NoKey
       /\ prefill'.encryptionKey = store.encryptionKey

\* the save of a new item that settles has stored the item, locked or not
SaveSettles ==
  (addItemView.pc = "encrypting" /\ addItemView'.pc = "idle"
     /\ addItemView.editingItemId = NoId) =>
    /\ HasId(localStorage'.items, addItemView.id)
    /\ decryptVaultItem(RawItem(FindById(localStorage'.items, addItemView.id)),
                        addItemView.encryptionKey).ok
    /\ HasId(store'.items, addItemView.id)

\* C7: handleSave and the edit pre-fill start encryptItem / decryptVaultItem
\* only while the store's encryptionKey is non-null, and a call in flight
\* when lock happens completes with the key it captured rather than
\* failing.
NoCallAgainstLockedScope ==
  /\ []InFlightCallsComplete
  /\ [][StartsWithStoreKey /\ SaveSettles]_vars

\* a save that was in flight at a lock has settled: the store is locked, and
\* the item is stored, encrypted under the key of a registered password
NoCallAgainstLockedScopeWitness ==
  /\ ~store.isUnlocked /\ store.encryptionKey = NoKey
  /\ addItemView.pc = "idle" /\ prefill.pc = "idle"
  /\ Len(localStorage.items) = 1
  /\ \E p \in Passwords, s \in Salts :
       /\ verifyLocalPassword(localStorage.vaultCheck, EncryptionKeyFor(p, s))
       /\ decryptVaultItem(RawItem(localStorage.items[1]),
                           EncryptionKeyFor(p, s)).ok
  /\ HasId(store.items, localStorage.items[1].id)

\* the check blob verifies under the key and holds the marker
MarkerUnder(checkCiphertext, key) ==
  /\ Verified(checkCiphertext, key)
  /\ decryptItem([ciphertext |-> checkCiphertext, version |-> 1],
                 key).plaintext = VAULT_CHECK_PLAINTEXT

\* the store gets unlocked by a registration that has saved its account, or
\* by an unlock attempt whose check blob verified under its key
UnlockOnlyChecked ==
  (~store.isUnlocked /\ store'.isUnlocked) =>
    \/ registerView.pc = "saving" /\ registerView'.pc = "idle"
    \/ /\ unlockView.pc = "decrypting" /\ unlockView'.pc = "idle"
       /\ unlockView.encryptionKey =
            EncryptionKeyFor(unlockView.password, unlockView.kdfSalt)
       /\ MarkerUnder(unlockView.checkCiphertext, unlockView.encryptionKey)
       /\ store'.encryptionKey = unlockView.encryptionKey

\* an attempt whose password is not the one the check blob was written for:
\* its key is derived all the same, the check fails, and the attempt ends
\* with the error shown and the store as it was
WrongPasswordRejected ==
  (/\ unlockView.pc = "verifying"
   /\ \E p \in Passwords :
        /\ p # unlockView.password
        /\ MarkerUnder(unlockView.checkCiphertext,
                       EncryptionKeyFor(p, unlockView.kdfSalt))) =>
    /\ unlockView.encryptionKey # NoKey
    /\ ~MarkerUnder(unlockView.checkCiphertext, unlockView.encryptionKey)
    /\ unlockView' # unlockView =>
         /\ unlockView' = IdleUnlock
         /\ store' = store
         /\ unlockError' = (Mounted(store) = "UnlockView")

\* C8: an unlock attempt calls store.unlock only if the stored vault-check
\* blob decrypts under the candidate key to the expected marker; with a
\* master password other than the registered one the key derivation does
\* not fail, the check fails, and the store stays locked and unchanged.
LocalPasswordCheck == [][UnlockOnlyChecked /\ WrongPasswordRejected]_vars

\* an attempt with another password than the registered one has failed
LocalPasswordCheckWitness ==
  /\ unlockError /\ unlockView.pc = "idle"
  /\ ~store.isUnlocked /\ store = lock(store)
  /\ localStorage.items = << >>
  /\ \E p \in Passwords :
       MarkerUnder(localStorage.vaultCheck,
                   EncryptionKeyFor(p, getLocalAccount(localStorage).kdfSalt))

====
